---- MODULE Spec2Model ----
(***************************************************************************)
(* Multi-device synchronisation engine of zebra-backend.                   *)
(*                                                                         *)
(* The store is PostgreSQL: three tables (projects, timer_sessions,        *)
(* device_sync) hold the committed rows; a handler that has begun a        *)
(* transaction keeps its uncommitted row versions in a write set, which    *)
(* also stands for the row locks it holds.  Transactions run at the        *)
(* default isolation level (Read Committed): every statement sees the      *)
(* rows committed when it runs plus the transaction's own writes, and a    *)
(* statement that must write a row locked by another transaction waits.    *)
(*                                                                         *)
(* Time: one clock; every reading of it (the start of a transaction, which *)
(* is what CURRENT_TIMESTAMP yields, and time.Now()) is later than all     *)
(* readings before it.  0 is Go's zero time.Time.                          *)
(*                                                                         *)
(* The columns created_at (never read by a handler of the sync path) and   *)
(* device_sync.updated_at (never read) are left out.                       *)
(***************************************************************************)
EXTENDS Integers, Sequences, FiniteSets, TLC

\* ------------------------------------------------------------- bounds
\* Last reading of the clock under each specification; an exchange reads the
\* clock twice (transaction start, now).
MaxTime == 4
MaxPullTime == 6
MaxSessionsTime == 3
MaxConcTime == 6
MaxDeltaTime == 6

\* ------------------------------------------------------------- universe
Owners == {"u1", "u2"}
Devices == {"dA", "dB"}
\* uuid.Nil, the zero UUID: an absent id
Nil == "nil"
\* SQL NULL in timer_sessions.project_id
Null == "null"
\* ids the clients supply
ProjectIds == {"p1"}
SessionIds == {"s1"}
\* ids uuid.New() may return: never equal to an id already in use
MintProjectIds == {"p8", "p9"}
MintSessionIds == {"s8", "s9"}
ProjectKeys == ProjectIds \cup MintProjectIds
SessionKeys == SessionIds \cup MintSessionIds
\* no row under this key
NoRow == [exists |-> FALSE]
\* no row in device_sync for this (user_id, device_id)
NoCursor == -1

\* Record contents the clients push.  Variant A and variant B differ in every
\* field, also in the fields the server is to ignore (user_id, is_deleted,
\* updated_at).
Variants == {"A", "B"}

ProjectPayload(id, v) ==
    IF v = "A"
    THEN [id |-> id, user_id |-> "u1", name |-> "Work", description |-> "d1",
          color |-> "red", device_id |-> "dA", is_deleted |-> FALSE, updated_at |-> 0]
    ELSE [id |-> id, user_id |-> "u2", name |-> "Personal", description |-> "d2",
          color |-> "blue", device_id |-> "dB", is_deleted |-> TRUE, updated_at |-> 99]

SessionPayload(id, v) ==
    IF v = "A"
    THEN [id |-> id, user_id |-> "u1", project_id |-> Null, start_time |-> 1,
          end_time |-> 2, description |-> "d1", device_id |-> "dA", is_deleted |-> FALSE]
    ELSE [id |-> id, user_id |-> "u2", project_id |-> "p1", start_time |-> 3,
          end_time |-> 4, description |-> "d2", device_id |-> "dB", is_deleted |-> TRUE]

EmptyMap == [k \in {} |-> NoRow]

\* ------------------------------------------------------------- state
VARIABLES
    projects,        \* committed rows of table projects, by id
    timer_sessions,  \* committed rows of table timer_sessions, by id
    device_sync,     \* committed last_sync_time by <<user_id, device_id>>
    clock,           \* the last reading of the clock
    h,               \* the request handlers (goroutines), by slot
    owed,            \* history: rows changed by other devices since the device's last successful exchange
    own,             \* history: rows changed by the device's last successful exchange
    lastCommit       \* history: the last committed exchange

vars == <<projects, timer_sessions, device_sync, clock, h, owed, own, lastCommit>>


\* ------------------------------------------------------------- SQL statements
\* mutant: the record keeps the owner the client put in it
ForceOwnerKeepClient(rec, userID) == rec

\* project.UserID = userID (and session.UserID = userID): the owner the client
\* put in the record is overwritten by the authenticated owner.
ForceOwner(rec, userID) == [rec EXCEPT !.user_id = userID]

\* mutant: every pushed record gets a new id
AssignIdAlwaysNew(id, fresh) == fresh

\* if project.ID == uuid.Nil { project.ID = uuid.New() }: the ids the record may
\* get, fresh being the ids uuid.New() can return
AssignId(id, fresh) == IF id = Nil THEN fresh ELSE {id}

\* mutant: the upsert without its WHERE projects.user_id = $2
ProjectUpsertAnyOwner(row, p, ts) ==
    IF ~row.exists
    THEN [exists |-> TRUE, user_id |-> p.user_id, name |-> p.name,
          description |-> p.description, color |-> p.color, device_id |-> p.device_id,
          is_deleted |-> FALSE, updated_at |-> ts]
    ELSE [row EXCEPT !.name = p.name, !.description = p.description,
                     !.color = p.color, !.device_id = p.device_id,
                     !.updated_at = ts]

\* mutant: the upsert with color left out of its SET list
ProjectUpsertKeepColor(row, p, ts) ==
    IF ~row.exists
    THEN [exists |-> TRUE, user_id |-> p.user_id, name |-> p.name,
          description |-> p.description, color |-> p.color, device_id |-> p.device_id,
          is_deleted |-> FALSE, updated_at |-> ts]
    ELSE IF row.user_id = p.user_id
         THEN [row EXCEPT !.name = p.name, !.description = p.description,
                          !.device_id = p.device_id, !.updated_at = ts]
         ELSE row

\* mutant: the upsert also takes is_deleted from the pushed record
ProjectUpsertSetsDeleted(row, p, ts) ==
    IF ~row.exists
    THEN [exists |-> TRUE, user_id |-> p.user_id, name |-> p.name,
          description |-> p.description, color |-> p.color, device_id |-> p.device_id,
          is_deleted |-> p.is_deleted, updated_at |-> ts]
    ELSE IF row.user_id = p.user_id
         THEN [row EXCEPT !.name = p.name, !.description = p.description,
                          !.color = p.color, !.device_id = p.device_id,
                          !.is_deleted = p.is_deleted, !.updated_at = ts]
         ELSE row

\* mutant: ON CONFLICT (id) DO NOTHING
ProjectUpsertDoNothing(row, p, ts) ==
    IF ~row.exists
    THEN [exists |-> TRUE, user_id |-> p.user_id, name |-> p.name,
          description |-> p.description, color |-> p.color, device_id |-> p.device_id,
          is_deleted |-> FALSE, updated_at |-> ts]
    ELSE row

\* mutant: the update leaves updated_at as it was
ProjectUpsertKeepStamp(row, p, ts) ==
    IF ~row.exists
    THEN [exists |-> TRUE, user_id |-> p.user_id, name |-> p.name,
          description |-> p.description, color |-> p.color, device_id |-> p.device_id,
          is_deleted |-> FALSE, updated_at |-> ts]
    ELSE IF row.user_id = p.user_id
         THEN [row EXCEPT !.name = p.name, !.description = p.description,
                          !.color = p.color, !.device_id = p.device_id]
         ELSE row

\* mutant: the update of an existing row also clears is_deleted
ProjectUpsertRevives(row, p, ts) ==
    IF ~row.exists
    THEN [exists |-> TRUE, user_id |-> p.user_id, name |-> p.name,
          description |-> p.description, color |-> p.color, device_id |-> p.device_id,
          is_deleted |-> FALSE, updated_at |-> ts]
    ELSE IF row.user_id = p.user_id
         THEN [row EXCEPT !.name = p.name, !.description = p.description,
                          !.color = p.color, !.device_id = p.device_id,
                          !.is_deleted = FALSE, !.updated_at = ts]
         ELSE row

\* mutant: the update of an existing row takes the row over for the pusher
ProjectUpsertTakesOwner(row, p, ts) ==
    IF ~row.exists
    THEN [exists |-> TRUE, user_id |-> p.user_id, name |-> p.name,
          description |-> p.description, color |-> p.color, device_id |-> p.device_id,
          is_deleted |-> FALSE, updated_at |-> ts]
    ELSE [row EXCEPT !.user_id = p.user_id, !.name = p.name,
                     !.description = p.description, !.color = p.color,
                     !.device_id = p.device_id, !.updated_at = ts]

\* INSERT INTO projects ... ON CONFLICT (id) DO UPDATE SET ... WHERE projects.user_id = $2
\* on the row the statement finds under p.id; ts is CURRENT_TIMESTAMP.
ProjectUpsert(row, p, ts) ==
    IF ~row.exists
    THEN [exists |-> TRUE, user_id |-> p.user_id, name |-> p.name,
          description |-> p.description, color |-> p.color, device_id |-> p.device_id,
          is_deleted |-> FALSE, updated_at |-> ts]
    ELSE IF row.user_id = p.user_id
         THEN [row EXCEPT !.name = p.name, !.description = p.description,
                          !.color = p.color, !.device_id = p.device_id,
                          !.updated_at = ts]
         ELSE row

\* mutant: the session upsert without its WHERE timer_sessions.user_id = $2
SessionUpsertAnyOwner(row, x, ts) ==
    IF ~row.exists
    THEN [exists |-> TRUE, user_id |-> x.user_id, project_id |-> x.project_id,
          start_time |-> x.start_time, end_time |-> x.end_time,
          description |-> x.description, device_id |-> x.device_id,
          is_deleted |-> FALSE, updated_at |-> ts]
    ELSE [row EXCEPT !.project_id = x.project_id, !.start_time = x.start_time,
                     !.end_time = x.end_time, !.description = x.description,
                     !.device_id = x.device_id, !.updated_at = ts]

\* mutant: the session upsert also takes is_deleted from the pushed record
SessionUpsertSetsDeleted(row, x, ts) ==
    IF ~row.exists
    THEN [exists |-> TRUE, user_id |-> x.user_id, project_id |-> x.project_id,
          start_time |-> x.start_time, end_time |-> x.end_time,
          description |-> x.description, device_id |-> x.device_id,
          is_deleted |-> x.is_deleted, updated_at |-> ts]
    ELSE IF row.user_id = x.user_id
         THEN [row EXCEPT !.project_id = x.project_id, !.start_time = x.start_time,
                          !.end_time = x.end_time, !.description = x.description,
                          !.device_id = x.device_id, !.is_deleted = x.is_deleted,
                          !.updated_at = ts]
         ELSE row

\* INSERT INTO timer_sessions ... ON CONFLICT (id) DO UPDATE SET ... WHERE timer_sessions.user_id = $2
SessionUpsert(row, x, ts) ==
    IF ~row.exists
    THEN [exists |-> TRUE, user_id |-> x.user_id, project_id |-> x.project_id,
          start_time |-> x.start_time, end_time |-> x.end_time,
          description |-> x.description, device_id |-> x.device_id,
          is_deleted |-> FALSE, updated_at |-> ts]
    ELSE IF row.user_id = x.user_id
         THEN [row EXCEPT !.project_id = x.project_id, !.start_time = x.start_time,
                          !.end_time = x.end_time, !.description = x.description,
                          !.device_id = x.device_id, !.updated_at = ts]
         ELSE row

\* project_id UUID REFERENCES projects(id): the row a session upsert inserts or
\* updates must name no project, or a project the transaction sees.
SessionFKViolated(row, x, visProjects) ==
    /\ (~row.exists \/ row.user_id = x.user_id)
    /\ x.project_id # Null
    /\ \/ x.project_id \notin ProjectKeys
       \/ ~visProjects[x.project_id].exists

\* mutant: the tombstoning update leaves updated_at as it was
TombstoneKeepStamp(row, userID, ts) ==
    IF row.exists /\ row.user_id = userID
    THEN [row EXCEPT !.is_deleted = TRUE]
    ELSE row

\* UPDATE ... SET is_deleted = true, updated_at = CURRENT_TIMESTAMP
\* WHERE id = ANY($1) AND user_id = $2, on one row named by $1
Tombstone(row, userID, ts) ==
    IF row.exists /\ row.user_id = userID
    THEN [row EXCEPT !.is_deleted = TRUE, !.updated_at = ts]
    ELSE row

\* A row as a query returns it.  version is the row's updated_at: the sync
\* queries do not select it, it identifies the row version that was read.
ProjectResult(k, row) ==
    [id |-> k, user_id |-> row.user_id, name |-> row.name, description |-> row.description,
     color |-> row.color, device_id |-> row.device_id, is_deleted |-> row.is_deleted,
     version |-> row.updated_at]

SessionResult(k, row) ==
    [id |-> k, user_id |-> row.user_id, project_id |-> row.project_id,
     start_time |-> row.start_time, end_time |-> row.end_time,
     description |-> row.description, device_id |-> row.device_id,
     is_deleted |-> row.is_deleted, version |-> row.updated_at]

\* SELECT ... FROM timer_sessions WHERE user_id = $1 AND updated_at > $2
SelectSessionsSince(vis, userID, since) ==
    {SessionResult(k, vis[k]) :
        k \in {j \in SessionKeys : /\ vis[j].exists
                                   /\ vis[j].user_id = userID
                                   /\ vis[j].updated_at > since}}

\* mutant: the projects query without its user_id = $1
SelectProjectsSinceAnyOwner(vis, userID, since) ==
    {ProjectResult(k, vis[k]) :
        k \in {j \in ProjectKeys : vis[j].exists /\ vis[j].updated_at > since}}

\* SELECT ... FROM projects WHERE user_id = $1 AND updated_at > $2
SelectProjectsSince(vis, userID, since) ==
    {ProjectResult(k, vis[k]) :
        k \in {j \in ProjectKeys : /\ vis[j].exists
                                   /\ vis[j].user_id = userID
                                   /\ vis[j].updated_at > since}}

\* SELECT ... FROM projects WHERE user_id = $1 AND is_deleted = false
ListProjects(userID) ==
    {ProjectResult(k, projects[k]) :
        k \in {j \in ProjectKeys : /\ projects[j].exists
                                   /\ projects[j].user_id = userID
                                   /\ projects[j].is_deleted = FALSE}}

\* SELECT ... FROM timer_sessions WHERE user_id = $1 AND is_deleted = false
ListSessions(userID) ==
    {SessionResult(k, timer_sessions[k]) :
        k \in {j \in SessionKeys : /\ timer_sessions[j].exists
                                   /\ timer_sessions[j].user_id = userID
                                   /\ timer_sessions[j].is_deleted = FALSE}}

\* models.GetProjectsByUserID and models.GetSessionsByUserID: the same filter
GetProjectsByUserID(userID) ==
    {ProjectResult(k, projects[k]) :
        k \in {j \in ProjectKeys : /\ projects[j].exists
                                   /\ projects[j].user_id = userID
                                   /\ projects[j].is_deleted = FALSE}}

GetSessionsByUserID(userID) ==
    {SessionResult(k, timer_sessions[k]) :
        k \in {j \in SessionKeys : /\ timer_sessions[j].exists
                                   /\ timer_sessions[j].user_id = userID
                                   /\ timer_sessions[j].is_deleted = FALSE}}

\* ------------------------------------------------------------- transactions
Slots == DOMAIN h

InTxPcs == {"cursor", "projects", "sessions", "delSessions", "delProjects",
            "qSessions", "qProjects", "updSync", "commit"}

InTx(s) == h[s].pc \in InTxPcs

\* What the statements of handler s see: its own writes over the committed rows.
VisProjects(s) ==
    [k \in ProjectKeys |-> IF k \in DOMAIN h[s].wP THEN h[s].wP[k] ELSE projects[k]]

VisSessions(s) ==
    [k \in SessionKeys |-> IF k \in DOMAIN h[s].wS THEN h[s].wS[k] ELSE timer_sessions[k]]

\* A row (or the key of a row being inserted) written by another open transaction
ProjectLocked(s, k) == \E t \in Slots \ {s} : k \in DOMAIN h[t].wP
SessionLocked(s, k) == \E t \in Slots \ {s} : k \in DOMAIN h[t].wS
\* mutant: the device sync statement does not wait for the cursor row
CursorLockedNever(s) == FALSE

CursorLocked(s) ==
    \E t \in Slots \ {s} : /\ h[t].wC # NoCursor
                           /\ h[t].userID = h[s].userID
                           /\ h[t].req.DeviceID = h[s].req.DeviceID

\* f with key k set to v (k added to the domain when new)
Put(f, k, v) == [j \in DOMAIN f \cup {k} |-> IF j = k THEN v ELSE f[j]]

\* mutant: Commit drops the writes of the transaction
InstallNothing(table, w) == table

\* the committed table with a write set applied
Install(table, w) == [k \in DOMAIN table |-> IF k \in DOMAIN w THEN w[k] ELSE table[k]]

\* mutant: uuid.New() may return an id that is in use
StaleProjectIds == MintProjectIds

\* uuid.New(): an id in use nowhere, neither committed nor in an open transaction
FreshProjectIds == {k \in MintProjectIds :
                      /\ ~projects[k].exists
                      /\ \A t \in Slots : k \notin DOMAIN h[t].wP}
FreshSessionIds == {k \in MintSessionIds :
                      /\ ~timer_sessions[k].exists
                      /\ \A t \in Slots : k \notin DOMAIN h[t].wS}

NoReq == [DeviceID |-> "", LastSyncTime |-> 0, LocalSessions |-> <<>>,
          LocalProjects |-> <<>>, DeletedSessions |-> <<>>, DeletedProjects |-> <<>>]

IdleHandler ==
    [pc |-> "idle", userID |-> Nil, req |-> NoReq, txStart |-> 0, i |-> 0,
     wP |-> EmptyMap, wS |-> EmptyMap, wC |-> NoCursor,
     deviceLastSyncTime |-> 0, serverSessions |-> {}, serverProjects |-> {},
     now |-> 0, status |-> 0, committed |-> FALSE, method |-> "POST",
     id |-> Nil,
     before |-> <<>>, changed |-> {}, owedBefore |-> {}, ownBefore |-> {}]

\* The first phase of sync.go's SyncData at or after `phase` that runs a statement
\* for this request: an empty list runs none.
SyncPhaseFrom(req, phase) ==
    LET order == <<"projects", "sessions", "delSessions", "delProjects", "qSessions">>
        work(ph) == CASE ph = "projects"    -> Len(req.LocalProjects) > 0
                      [] ph = "sessions"    -> Len(req.LocalSessions) > 0
                      [] ph = "delSessions" -> Len(req.DeletedSessions) > 0
                      [] ph = "delProjects" -> Len(req.DeletedProjects) > 0
                      [] OTHER              -> TRUE
        from == CHOOSE n \in 1..5 : order[n] = phase
    IN  order[CHOOSE n \in from..5 : work(order[n]) /\ \A m \in from..(n-1) : ~work(order[m])]

Range(seq) == {seq[n] : n \in 1..Len(seq)}

\* history: the rows a transaction changes when it commits
ChangedKeys(s) ==
    {k \in DOMAIN h[s].wP : h[s].wP[k] # projects[k]}
    \cup {k \in DOMAIN h[s].wS : h[s].wS[k] # timer_sessions[k]}

\* readings of the clock that the open transactions still have to take
StampsOwed == Cardinality({t \in Slots : InTx(t) /\ h[t].now = 0})


\* ------------------------------------------------------------- sync.go: SyncData
\* Lines 28-47: the owner from the request context, the decoded body, Begin.
\* CURRENT_TIMESTAMP of the transaction is the clock reading taken here.
SyncData_Begin(s, userID, req) ==
    /\ h[s].pc \in {"idle", "done", "failed"}
    /\ Cardinality({n \in 1..Len(req.LocalProjects) : req.LocalProjects[n].id = Nil})
          <= Cardinality(FreshProjectIds)
    /\ Cardinality({n \in 1..Len(req.LocalSessions) : req.LocalSessions[n].id = Nil})
          <= Cardinality(FreshSessionIds)
    /\ clock' = clock + 1
    /\ h' = [h EXCEPT ![s] = [IdleHandler EXCEPT
                !.pc = "cursor", !.userID = userID, !.req = req,
                !.txStart = clock + 1,
                !.before = IF Cardinality(Slots) = 1
                           THEN <<projects, timer_sessions, device_sync>> ELSE <<>>]]
    /\ UNCHANGED <<projects, timer_sessions, device_sync, owed, own, lastCommit>>

\* Lines 49-61: INSERT INTO device_sync ... ON CONFLICT (user_id, device_id)
\* DO UPDATE SET last_sync_time = EXCLUDED.last_sync_time RETURNING last_sync_time.
\* The row is written with the request's LastSyncTime and RETURNING yields the
\* row as written.
SyncData_DeviceSync(s) ==
    /\ h[s].pc = "cursor"
    /\ ~CursorLocked(s)
    /\ h' = [h EXCEPT ![s].wC = h[s].req.LastSyncTime,
                      ![s].deviceLastSyncTime = h[s].req.LastSyncTime,
                      ![s].i = 1,
                      ![s].pc = SyncPhaseFrom(h[s].req, "projects")]
    /\ UNCHANGED <<projects, timer_sessions, device_sync, clock, owed, own, lastCommit>>

\* Lines 63-94: one iteration of the loop over req.LocalProjects
SyncData_Project(s) ==
    /\ h[s].pc = "projects"
    /\ LET p0 == h[s].req.LocalProjects[h[s].i]
           last == h[s].i = Len(h[s].req.LocalProjects)
       IN  \E k \in AssignId(p0.id, FreshProjectIds) :
              LET p == ForceOwner([p0 EXCEPT !.id = k], h[s].userID)
              IN  /\ ~ProjectLocked(s, k)
                  /\ h' = [h EXCEPT
                       ![s].wP = Put(h[s].wP, k, ProjectUpsert(VisProjects(s)[k], p, h[s].txStart)),
                       ![s].i = IF last THEN 1 ELSE h[s].i + 1,
                       ![s].pc = IF last THEN SyncPhaseFrom(h[s].req, "sessions") ELSE "projects"]
    /\ UNCHANGED <<projects, timer_sessions, device_sync, clock, owed, own, lastCommit>>

\* the handler returns with an error: the deferred tx.Rollback drops the writes
RolledBack(s, code) ==
    [IdleHandler EXCEPT !.pc = "failed", !.userID = h[s].userID, !.status = code,
                        !.committed = h[s].committed, !.before = h[s].before]

\* Lines 96-129: one iteration of the loop over req.LocalSessions; a foreign key
\* violation is an error of the statement (lines 125-128)
SyncData_Session(s) ==
    /\ h[s].pc = "sessions"
    /\ LET x0 == h[s].req.LocalSessions[h[s].i]
           last == h[s].i = Len(h[s].req.LocalSessions)
       IN  \E k \in AssignId(x0.id, FreshSessionIds) :
              LET x == ForceOwner([x0 EXCEPT !.id = k], h[s].userID)
                  row == VisSessions(s)[k]
              IN  /\ ~SessionLocked(s, k)
                  /\ IF SessionFKViolated(row, x, VisProjects(s))
                     THEN h' = [h EXCEPT ![s] = RolledBack(s, 500)]
                     ELSE h' = [h EXCEPT
                            ![s].wS = Put(h[s].wS, k, SessionUpsert(row, x, h[s].txStart)),
                            ![s].i = IF last THEN 1 ELSE h[s].i + 1,
                            ![s].pc = IF last THEN SyncPhaseFrom(h[s].req, "delSessions")
                                      ELSE "sessions"]
    /\ UNCHANGED <<projects, timer_sessions, device_sync, clock, owed, own, lastCommit>>

\* Lines 131-144: the rows of the owner named by req.DeletedSessions
SyncData_DeletedSessions(s) ==
    /\ h[s].pc = "delSessions"
    /\ LET vis == VisSessions(s)
           hit == {k \in Range(h[s].req.DeletedSessions) \cap SessionKeys :
                     vis[k].exists /\ vis[k].user_id = h[s].userID}
       IN  /\ \A k \in hit : ~SessionLocked(s, k)
           /\ h' = [h EXCEPT
                ![s].wS = [k \in DOMAIN h[s].wS \cup hit |->
                             IF k \in hit THEN Tombstone(vis[k], h[s].userID, h[s].txStart)
                             ELSE h[s].wS[k]],
                ![s].pc = SyncPhaseFrom(h[s].req, "delProjects")]
    /\ UNCHANGED <<projects, timer_sessions, device_sync, clock, owed, own, lastCommit>>

\* mutant: the tombstoning of projects without its AND user_id = $2
SyncData_DeletedProjectsAnyOwner(s) ==
    /\ h[s].pc = "delProjects"
    /\ LET vis == VisProjects(s)
           hit == {k \in Range(h[s].req.DeletedProjects) \cap ProjectKeys : vis[k].exists}
       IN  /\ \A k \in hit : ~ProjectLocked(s, k)
           /\ h' = [h EXCEPT
                ![s].wP = [k \in DOMAIN h[s].wP \cup hit |->
                             IF k \in hit
                             THEN [vis[k] EXCEPT !.is_deleted = TRUE,
                                                 !.updated_at = h[s].txStart]
                             ELSE h[s].wP[k]],
                ![s].pc = "qSessions"]
    /\ UNCHANGED <<projects, timer_sessions, device_sync, clock, owed, own, lastCommit>>

\* mutant: the tombstoning of projects runs before the upserts, on the rows
\* stored before the exchange
SyncData_DeletedProjectsFirst(s) ==
    /\ h[s].pc = "delProjects"
    /\ LET vis == VisProjects(s)
           hit == {k \in Range(h[s].req.DeletedProjects) \cap ProjectKeys :
                     projects[k].exists /\ projects[k].user_id = h[s].userID}
       IN  /\ \A k \in hit : ~ProjectLocked(s, k)
           /\ h' = [h EXCEPT
                ![s].wP = [k \in DOMAIN h[s].wP \cup hit |->
                             IF k \in hit THEN Tombstone(vis[k], h[s].userID, h[s].txStart)
                             ELSE h[s].wP[k]],
                ![s].pc = "qSessions"]
    /\ UNCHANGED <<projects, timer_sessions, device_sync, clock, owed, own, lastCommit>>

\* Lines 146-159: the rows of the owner named by req.DeletedProjects
SyncData_DeletedProjects(s) ==
    /\ h[s].pc = "delProjects"
    /\ LET vis == VisProjects(s)
           hit == {k \in Range(h[s].req.DeletedProjects) \cap ProjectKeys :
                     vis[k].exists /\ vis[k].user_id = h[s].userID}
       IN  /\ \A k \in hit : ~ProjectLocked(s, k)
           /\ h' = [h EXCEPT
                ![s].wP = [k \in DOMAIN h[s].wP \cup hit |->
                             IF k \in hit THEN Tombstone(vis[k], h[s].userID, h[s].txStart)
                             ELSE h[s].wP[k]],
                ![s].pc = "qSessions"]
    /\ UNCHANGED <<projects, timer_sessions, device_sync, clock, owed, own, lastCommit>>

\* Lines 161-192: the sessions of the pull payload
SyncData_QuerySessions(s) ==
    /\ h[s].pc = "qSessions"
    /\ h' = [h EXCEPT
         ![s].serverSessions =
             SelectSessionsSince(VisSessions(s), h[s].userID, h[s].deviceLastSyncTime),
         ![s].pc = "qProjects"]
    /\ UNCHANGED <<projects, timer_sessions, device_sync, clock, owed, own, lastCommit>>

\* Lines 194-223: the projects of the pull payload
SyncData_QueryProjects(s) ==
    /\ h[s].pc = "qProjects"
    /\ h' = [h EXCEPT
         ![s].serverProjects =
             SelectProjectsSince(VisProjects(s), h[s].userID, h[s].deviceLastSyncTime),
         ![s].pc = "updSync"]
    /\ UNCHANGED <<projects, timer_sessions, device_sync, clock, owed, own, lastCommit>>

\* mutant: the exchange reads the clock but leaves the cursor row as the
\* device sync statement wrote it
SyncData_UpdateSyncTimeSkipped(s) ==
    /\ h[s].pc = "updSync"
    /\ clock' = clock + 1
    /\ h' = [h EXCEPT ![s].now = clock + 1, ![s].pc = "commit"]
    /\ UNCHANGED <<projects, timer_sessions, device_sync, owed, own, lastCommit>>

\* Lines 225-237: now := time.Now(); UPDATE device_sync SET last_sync_time = now
SyncData_UpdateSyncTime(s) ==
    /\ h[s].pc = "updSync"
    /\ clock' = clock + 1
    /\ h' = [h EXCEPT ![s].now = clock + 1, ![s].wC = clock + 1, ![s].pc = "commit"]
    /\ UNCHANGED <<projects, timer_sessions, device_sync, owed, own, lastCommit>>

\* history kept when handler s commits
CommitHistory(s) ==
    LET u == h[s].userID
        d == h[s].req.DeviceID
        w == ChangedKeys(s)
    IN  /\ owed' = [ud \in DOMAIN owed |->
                      IF ud[1] # u THEN owed[ud]
                      ELSE IF ud[2] = d THEN {} ELSE owed[ud] \cup w]
        /\ own' = [ud \in DOMAIN own |-> IF ud = <<u, d>> THEN w ELSE own[ud]]
        /\ lastCommit' = [slot |-> s, userID |-> u, req |-> h[s].req,
                          txStart |-> h[s].txStart, changed |-> w]

\* mutant: Commit without the writes to device_sync
SyncData_CommitKeepCursor(s) ==
    /\ h[s].pc = "commit"
    /\ projects' = Install(projects, h[s].wP)
    /\ timer_sessions' = Install(timer_sessions, h[s].wS)
    /\ CommitHistory(s)
    /\ h' = [h EXCEPT ![s] = [IdleHandler EXCEPT
                !.pc = "done", !.userID = h[s].userID, !.req = h[s].req,
                !.txStart = h[s].txStart, !.now = h[s].now, !.status = 200,
                !.committed = TRUE]]
    /\ UNCHANGED <<device_sync, clock>>

\* Lines 239-254: Commit, then the response {LastSyncTime: now, ServerSessions,
\* ServerProjects}
SyncData_Commit(s) ==
    /\ h[s].pc = "commit"
    /\ projects' = Install(projects, h[s].wP)
    /\ timer_sessions' = Install(timer_sessions, h[s].wS)
    /\ device_sync' = [device_sync EXCEPT ![<<h[s].userID, h[s].req.DeviceID>>] = h[s].wC]
    /\ CommitHistory(s)
    /\ h' = [h EXCEPT ![s] = [IdleHandler EXCEPT
                !.pc = "done", !.userID = h[s].userID, !.req = h[s].req,
                !.txStart = h[s].txStart, !.now = h[s].now, !.status = 200,
                !.committed = TRUE, !.before = h[s].before,
                !.changed = ChangedKeys(s),
                !.deviceLastSyncTime = h[s].deviceLastSyncTime,
                !.serverSessions = h[s].serverSessions,
                !.serverProjects = h[s].serverProjects,
                !.owedBefore = owed[<<h[s].userID, h[s].req.DeviceID>>],
                !.ownBefore = own[<<h[s].userID, h[s].req.DeviceID>>]]]
    /\ UNCHANGED clock

\* Any statement, or Commit, returns an error (a storage failure, or the request
\* context cancelled by the 60 s timeout): http.Error 500 and return; the
\* deferred tx.Rollback (line 47) ends the transaction.
SyncData_Error(s) ==
    /\ InTx(s)
    /\ h' = [h EXCEPT ![s] = RolledBack(s, 500)]
    /\ UNCHANGED <<projects, timer_sessions, device_sync, clock, owed, own, lastCommit>>

\* ------------------------------------------------------------- requests
\* the last_sync_time a device may send: none (zero), the asOf it last received
\* (which is what device_sync holds for it), or its own clock
LastSyncTimes(u, d) ==
    {0, clock} \cup (IF device_sync[<<u, d>>] = NoCursor THEN {} ELSE {device_sync[<<u, d>>]})

Request(d, t, ls, lp, ds, dp) ==
    [DeviceID |-> d, LastSyncTime |-> t, LocalSessions |-> ls, LocalProjects |-> lp,
     DeletedSessions |-> ds, DeletedProjects |-> dp]

ProjectBatches ==
    {<<>>} \cup {<<ProjectPayload(id, v)>> : id \in ProjectIds, v \in Variants}

SessionBatches ==
    {<<>>} \cup {<<SessionPayload(id, v)>> : id \in SessionIds, v \in Variants}

DeletedProjectLists == {<<>>} \cup {<<id>> : id \in ProjectIds}
DeletedSessionLists == {<<>>} \cup {<<id>> : id \in SessionIds}

\* Merge-centred requests: every batch shape, from a device that asks for the
\* full data set.
MergeRequests ==
    {Request(d, 0, ls, lp, ds, dp) :
        d \in {"dA"}, ls \in SessionBatches, lp \in ProjectBatches,
        ds \in DeletedSessionLists, dp \in DeletedProjectLists}

\* ------------------------------------------------------------- specification
InitStore ==
    /\ projects = [k \in ProjectKeys |-> NoRow]
    /\ timer_sessions = [k \in SessionKeys |-> NoRow]
    /\ device_sync = [ud \in Owners \X Devices |-> NoCursor]
    /\ clock = 0
    /\ owed = [ud \in Owners \X Devices |-> {}]
    /\ own = [ud \in Owners \X Devices |-> {}]
    /\ lastCommit = [slot |-> 0, userID |-> Nil, req |-> NoReq, txStart |-> 0, changed |-> {}]

\* an exchange begins only while the clock has the two readings it takes left
ClockAllows(limit) == clock + 2 + StampsOwed <= limit

\* Spec: one exchange at a time, every batch shape, both owners
SeqSlots == {1}

Init ==
    /\ InitStore
    /\ h = [s \in SeqSlots |-> IdleHandler]

Next ==
    \/ \E s \in SeqSlots, u \in Owners, req \in MergeRequests :
          ClockAllows(MaxTime) /\ SyncData_Begin(s, u, req)
    \/ \E s \in SeqSlots : SyncData_DeviceSync(s)
    \/ \E s \in SeqSlots : SyncData_Project(s)
    \/ \E s \in SeqSlots : SyncData_Session(s)
    \/ \E s \in SeqSlots : SyncData_DeletedSessions(s)
    \/ \E s \in SeqSlots : SyncData_DeletedProjects(s)
    \/ \E s \in SeqSlots : SyncData_QuerySessions(s)
    \/ \E s \in SeqSlots : SyncData_QueryProjects(s)
    \/ \E s \in SeqSlots : SyncData_UpdateSyncTime(s)
    \/ \E s \in SeqSlots : SyncData_Commit(s)
    \/ \E s \in SeqSlots : SyncData_Error(s)

Spec == Init /\ [][Next]_vars


\* SpecPull: one exchange at a time, two devices of one owner, every cursor a
\* device may send; the batches upsert a project, a session or both, delete
\* the project, or are empty
PullBatches ==
    {<< <<>>, <<>>, <<>> >>,
     << <<SessionPayload("s1", "A")>>, <<ProjectPayload("p1", "A")>>, <<>> >>,
     << <<>>, <<ProjectPayload("p1", "A")>>, <<>> >>,
     << <<>>, <<ProjectPayload("p1", "B")>>, <<>> >>,
     << <<SessionPayload("s1", "A")>>, <<>>, <<>> >>,
     << <<>>, <<>>, <<"p1">> >>}

PullRequests(u) ==
    {Request(d, t, b[1], b[2], <<>>, b[3]) :
        d \in Devices, t \in UNION {LastSyncTimes(u, dd) : dd \in Devices},
        b \in PullBatches}

PullOwners == {"u1"}

NextPull ==
    \/ \E s \in SeqSlots, u \in PullOwners : \E req \in PullRequests(u) :
          /\ req.LastSyncTime \in LastSyncTimes(u, req.DeviceID)
          /\ ClockAllows(MaxPullTime)
          /\ SyncData_Begin(s, u, req)
    \/ \E s \in SeqSlots : SyncData_DeviceSync(s)
    \/ \E s \in SeqSlots : SyncData_Project(s)
    \/ \E s \in SeqSlots : SyncData_Session(s)
    \/ \E s \in SeqSlots : SyncData_DeletedProjects(s)
    \/ \E s \in SeqSlots : SyncData_QuerySessions(s)
    \/ \E s \in SeqSlots : SyncData_QueryProjects(s)
    \/ \E s \in SeqSlots : SyncData_UpdateSyncTime(s)
    \/ \E s \in SeqSlots : SyncData_Commit(s)
    \/ \E s \in SeqSlots : SyncData_Error(s)

SpecPull == Init /\ [][NextPull]_vars

\* ------------------------------------------------------------- sessions.go: SyncData
\* models.Session.ProjectID is a uuid.UUID, not a pointer: a session pushed
\* without a project is written with the zero UUID as its project_id.
ZeroUUID == "00000000"

ModelsSession(x) == IF x.project_id = Null THEN [x EXCEPT !.project_id = ZeroUUID] ELSE x

SessionsGoPcs == {"v2sessions", "v2projects", "v2delSessions", "v2delProjects", "v2commit"}

\* the first phase of sessions.go's SyncData at or after `phase` that runs a
\* statement for this request; Commit always runs
SessionsGoPhaseFrom(req, phase) ==
    LET order == <<"v2sessions", "v2projects", "v2delSessions", "v2delProjects", "v2commit">>
        work(ph) == CASE ph = "v2sessions"    -> Len(req.LocalSessions) > 0
                      [] ph = "v2projects"    -> Len(req.LocalProjects) > 0
                      [] ph = "v2delSessions" -> Len(req.DeletedSessions) > 0
                      [] ph = "v2delProjects" -> Len(req.DeletedProjects) > 0
                      [] OTHER                -> TRUE
        from == CHOOSE n \in 1..5 : order[n] = phase
    IN  order[CHOOSE n \in from..5 : work(order[n]) /\ \A m \in from..(n-1) : ~work(order[m])]

\* Lines 116-133 (POST): the decoded body, Begin, defer Rollback
SessionsGo_SyncData_Begin(s, userID, req) ==
    /\ h[s].pc \in {"idle", "done", "failed"}
    /\ clock' = clock + 1
    /\ h' = [h EXCEPT ![s] = [IdleHandler EXCEPT
                !.pc = SessionsGoPhaseFrom(req, "v2sessions"), !.userID = userID,
                !.req = req, !.txStart = clock + 1, !.i = 1,
                !.before = <<projects, timer_sessions, device_sync>>]]
    /\ UNCHANGED <<projects, timer_sessions, device_sync, owed, own, lastCommit>>

\* Lines 135-169: one iteration of the loop over req.LocalSessions, which runs
\* before the loop over req.LocalProjects
SessionsGo_SyncData_Session(s) ==
    /\ h[s].pc = "v2sessions"
    /\ LET x0 == h[s].req.LocalSessions[h[s].i]
           last == h[s].i = Len(h[s].req.LocalSessions)
       IN  \E k \in AssignId(x0.id, FreshSessionIds) :
              LET x == ModelsSession(ForceOwner([x0 EXCEPT !.id = k], h[s].userID))
                  row == VisSessions(s)[k]
              IN  /\ ~SessionLocked(s, k)
                  /\ IF SessionFKViolated(row, x, VisProjects(s))
                     THEN h' = [h EXCEPT ![s] = RolledBack(s, 500)]
                     ELSE h' = [h EXCEPT
                            ![s].wS = Put(h[s].wS, k, SessionUpsert(row, x, h[s].txStart)),
                            ![s].i = IF last THEN 1 ELSE h[s].i + 1,
                            ![s].pc = IF last THEN SessionsGoPhaseFrom(h[s].req, "v2projects")
                                      ELSE "v2sessions"]
    /\ UNCHANGED <<projects, timer_sessions, device_sync, clock, owed, own, lastCommit>>

\* Lines 171-203: one iteration of the loop over req.LocalProjects
SessionsGo_SyncData_Project(s) ==
    /\ h[s].pc = "v2projects"
    /\ LET p0 == h[s].req.LocalProjects[h[s].i]
           last == h[s].i = Len(h[s].req.LocalProjects)
       IN  \E k \in AssignId(p0.id, FreshProjectIds) :
              LET p == ForceOwner([p0 EXCEPT !.id = k], h[s].userID)
              IN  /\ ~ProjectLocked(s, k)
                  /\ h' = [h EXCEPT
                       ![s].wP = Put(h[s].wP, k, ProjectUpsert(VisProjects(s)[k], p, h[s].txStart)),
                       ![s].i = IF last THEN 1 ELSE h[s].i + 1,
                       ![s].pc = IF last THEN SessionsGoPhaseFrom(h[s].req, "v2delSessions")
                                 ELSE "v2projects"]
    /\ UNCHANGED <<projects, timer_sessions, device_sync, clock, owed, own, lastCommit>>

\* Lines 205-219: the rows of the owner named by req.DeletedSessions
SessionsGo_SyncData_DeletedSessions(s) ==
    /\ h[s].pc = "v2delSessions"
    /\ LET vis == VisSessions(s)
           hit == {k \in Range(h[s].req.DeletedSessions) \cap SessionKeys :
                     vis[k].exists /\ vis[k].user_id = h[s].userID}
       IN  /\ \A k \in hit : ~SessionLocked(s, k)
           /\ h' = [h EXCEPT
                ![s].wS = [k \in DOMAIN h[s].wS \cup hit |->
                             IF k \in hit THEN Tombstone(vis[k], h[s].userID, h[s].txStart)
                             ELSE h[s].wS[k]],
                ![s].pc = SessionsGoPhaseFrom(h[s].req, "v2delProjects")]
    /\ UNCHANGED <<projects, timer_sessions, device_sync, clock, owed, own, lastCommit>>

\* Lines 221-234: the rows of the owner named by req.DeletedProjects
SessionsGo_SyncData_DeletedProjects(s) ==
    /\ h[s].pc = "v2delProjects"
    /\ LET vis == VisProjects(s)
           hit == {k \in Range(h[s].req.DeletedProjects) \cap ProjectKeys :
                     vis[k].exists /\ vis[k].user_id = h[s].userID}
       IN  /\ \A k \in hit : ~ProjectLocked(s, k)
           /\ h' = [h EXCEPT
                ![s].wP = [k \in DOMAIN h[s].wP \cup hit |->
                             IF k \in hit THEN Tombstone(vis[k], h[s].userID, h[s].txStart)
                             ELSE h[s].wP[k]],
                ![s].pc = "v2commit"]
    /\ UNCHANGED <<projects, timer_sessions, device_sync, clock, owed, own, lastCommit>>

\* Lines 236-241: tx.Commit.  No statement of this handler writes device_sync.
SessionsGo_SyncData_Commit(s) ==
    /\ h[s].pc = "v2commit"
    /\ projects' = Install(projects, h[s].wP)
    /\ timer_sessions' = Install(timer_sessions, h[s].wS)
    /\ CommitHistory(s)
    /\ h' = [h EXCEPT ![s].pc = "v2readback", ![s].committed = TRUE,
                      ![s].changed = ChangedKeys(s),
                      ![s].wP = EmptyMap, ![s].wS = EmptyMap]
    /\ UNCHANGED <<device_sync, clock>>

\* Lines 243-255: the read-back runs tx.Query on the transaction that line 237
\* committed; a query on a closed transaction returns an error (pgx.ErrTxClosed):
\* http.Error 500 and return
SessionsGo_SyncData_ReadBack(s) ==
    /\ h[s].pc = "v2readback"
    /\ h' = [h EXCEPT ![s] = RolledBack(s, 500)]
    /\ UNCHANGED <<projects, timer_sessions, device_sync, clock, owed, own, lastCommit>>

\* a statement or Commit returns an error: http.Error 500 and return; the
\* deferred tx.Rollback (line 133) ends the transaction
SessionsGo_SyncData_Error(s) ==
    /\ h[s].pc \in SessionsGoPcs
    /\ h' = [h EXCEPT ![s] = RolledBack(s, 500)]
    /\ UNCHANGED <<projects, timer_sessions, device_sync, clock, owed, own, lastCommit>>

\* Lines 83-97 (GET): device_id from the query string, models.GetSessionsByUserID
SessionsGo_SyncData_GetSessions(s, userID, deviceID) ==
    /\ h[s].pc \in {"idle", "done", "failed"}
    /\ h' = [h EXCEPT ![s] = [IdleHandler EXCEPT
                !.pc = "getProjects", !.userID = userID, !.method = "GET",
                !.req = [NoReq EXCEPT !.DeviceID = deviceID],
                !.before = <<projects, timer_sessions, device_sync>>,
                !.serverSessions = GetSessionsByUserID(userID)]]
    /\ UNCHANGED <<projects, timer_sessions, device_sync, clock, owed, own, lastCommit>>

\* Lines 99-113 (GET): models.GetProjectsByUserID and the response
\* {sessions, projects}
SessionsGo_SyncData_GetProjects(s) ==
    /\ h[s].pc = "getProjects"
    /\ h' = [h EXCEPT ![s].serverProjects = GetProjectsByUserID(h[s].userID),
                      ![s].status = 200, ![s].pc = "done"]
    /\ UNCHANGED <<projects, timer_sessions, device_sync, clock, owed, own, lastCommit>>

\* Lines 100-104 (GET): models.GetProjectsByUserID returns an error
SessionsGo_SyncData_GetError(s) ==
    /\ h[s].pc = "getProjects"
    /\ h' = [h EXCEPT ![s] = RolledBack(s, 500)]
    /\ UNCHANGED <<projects, timer_sessions, device_sync, clock, owed, own, lastCommit>>

\* SpecSessions: the SyncData of sessions.go, one request at a time, both
\* owners, every batch shape
SessionsRequests ==
    {Request(d, 0, ls, lp, ds, dp) :
        d \in {"dA"}, ls \in SessionBatches, lp \in ProjectBatches,
        ds \in DeletedSessionLists, dp \in DeletedProjectLists}

NextSessions ==
    \/ \E s \in SeqSlots, u \in Owners, req \in SessionsRequests :
          clock + 1 <= MaxSessionsTime /\ SessionsGo_SyncData_Begin(s, u, req)
    \/ \E s \in SeqSlots : SessionsGo_SyncData_Session(s)
    \/ \E s \in SeqSlots : SessionsGo_SyncData_Project(s)
    \/ \E s \in SeqSlots : SessionsGo_SyncData_DeletedSessions(s)
    \/ \E s \in SeqSlots : SessionsGo_SyncData_DeletedProjects(s)
    \/ \E s \in SeqSlots : SessionsGo_SyncData_Commit(s)
    \/ \E s \in SeqSlots : SessionsGo_SyncData_ReadBack(s)
    \/ \E s \in SeqSlots : SessionsGo_SyncData_Error(s)
    \/ \E s \in SeqSlots, u \in Owners, d \in Devices : SessionsGo_SyncData_GetSessions(s, u, d)
    \/ \E s \in SeqSlots : SessionsGo_SyncData_GetProjects(s)
    \/ \E s \in SeqSlots : SessionsGo_SyncData_GetError(s)

SpecSessions == Init /\ [][NextSessions]_vars

\* SpecConc: two exchanges of sync.go at a time, for two devices of one owner;
\* the batches upsert a session and a project, or the project with other
\* values, or are empty
ConcSlots == {1, 2}

ConcBatches ==
    {<< <<>>, <<>> >>,
     << <<SessionPayload("s1", "A")>>, <<ProjectPayload("p1", "A")>> >>,
     << <<>>, <<ProjectPayload("p1", "B")>> >>}

ConcRequests ==
    {Request(d, 0, b[1], b[2], <<>>, <<>>) : d \in Devices, b \in ConcBatches}

InitConc ==
    /\ InitStore
    /\ h = [s \in ConcSlots |-> IdleHandler]

NextConc ==
    \/ \E s \in ConcSlots, u \in PullOwners, req \in ConcRequests :
          ClockAllows(MaxConcTime) /\ SyncData_Begin(s, u, req)
    \/ \E s \in ConcSlots : SyncData_DeviceSync(s)
    \/ \E s \in ConcSlots : SyncData_Project(s)
    \/ \E s \in ConcSlots : SyncData_Session(s)
    \/ \E s \in ConcSlots : SyncData_QuerySessions(s)
    \/ \E s \in ConcSlots : SyncData_QueryProjects(s)
    \/ \E s \in ConcSlots : SyncData_UpdateSyncTime(s)
    \/ \E s \in ConcSlots : SyncData_Commit(s)
    \/ \E s \in ConcSlots : SyncData_Error(s)

SpecConc == InitConc /\ [][NextConc]_vars

\* ------------------------------------------------------------- claims under Spec
MutableProject(r) ==
    [name |-> r.name, description |-> r.description, color |-> r.color,
     device_id |-> r.device_id]

MutableSession(r) ==
    [project_id |-> r.project_id, start_time |-> r.start_time, end_time |-> r.end_time,
     description |-> r.description, device_id |-> r.device_id]

\* handler s has committed and answered
Done(s) == h[s].pc = "done"

\* the step is the commit of an exchange of owner u
CommitOf(u) ==
    \E s \in Slots : h[s].pc = "commit" /\ h'[s].pc = "done" /\ h[s].userID = u

\* C2. Ownership isolation: a row stored under owner V changes in no field (not
\* in the deleted flag, the owner or updated_at either) except by the commit of
\* an exchange of V; whatever an exchange of another owner U upserts or deletes
\* under that id leaves the row as it is.
C2_OwnershipIsolation ==
    [][/\ \A k \in ProjectKeys :
             (projects[k].exists /\ projects'[k] # projects[k])
                 => CommitOf(projects[k].user_id)
       /\ \A k \in SessionKeys :
             (timer_sessions[k].exists /\ timer_sessions'[k] # timer_sessions[k])
                 => CommitOf(timer_sessions[k].user_id)]_vars

\* C2 witness: an exchange of U has committed a batch that upserts and deletes a
\* project id and a session id which are both stored under another owner.
C2_Witness ==
    \E s \in Slots :
        /\ Done(s)
        /\ h[s].req.LocalProjects # <<>> /\ h[s].req.LocalSessions # <<>>
        /\ h[s].req.DeletedProjects = <<h[s].req.LocalProjects[1].id>>
        /\ h[s].req.DeletedSessions = <<h[s].req.LocalSessions[1].id>>
        /\ projects[h[s].req.LocalProjects[1].id].exists
        /\ projects[h[s].req.LocalProjects[1].id].user_id # h[s].userID
        /\ timer_sessions[h[s].req.LocalSessions[1].id].exists
        /\ timer_sessions[h[s].req.LocalSessions[1].id].user_id # h[s].userID

\* C3. Last write wins: when a push of an owner that upserts record id X has
\* committed, every mutable field of the record stored under X for that owner
\* equals the value this push submitted, whatever an earlier push stored there
\* and whatever client timestamps the records carried.
C3_LastWriteWins ==
    \A s \in Slots :
        Done(s) =>
            /\ \A n \in 1..Len(h[s].req.LocalProjects) :
                  LET p == h[s].req.LocalProjects[n]
                  IN  (p.id # Nil /\ projects[p.id].exists
                          /\ projects[p.id].user_id = h[s].userID)
                      => MutableProject(projects[p.id]) = MutableProject(p)
            /\ \A n \in 1..Len(h[s].req.LocalSessions) :
                  LET x == h[s].req.LocalSessions[n]
                  IN  (x.id # Nil /\ timer_sessions[x.id].exists
                          /\ timer_sessions[x.id].user_id = h[s].userID)
                      => MutableSession(timer_sessions[x.id]) = MutableSession(x)

\* C3 witness: push P2 has committed over a project and a session that an
\* earlier push of the same owner stored with other values.
C3_Witness ==
    \E s \in Slots :
        /\ Done(s)
        /\ h[s].req.LocalProjects # <<>> /\ h[s].req.LocalSessions # <<>>
        /\ LET p == h[s].req.LocalProjects[1]
               x == h[s].req.LocalSessions[1]
               was == h[s].before
           IN  /\ was[1][p.id].exists /\ was[1][p.id].user_id = h[s].userID
               /\ MutableProject(was[1][p.id]) # MutableProject(p)
               /\ was[2][x.id].exists /\ was[2][x.id].user_id = h[s].userID
               /\ MutableSession(was[2][x.id]) # MutableSession(x)
               /\ MutableProject(projects[p.id]) = MutableProject(p)


\* the pull of handler s returned project k (session k) flagged deleted
PulledDeletedProject(s, k) == \E r \in h[s].serverProjects : r.id = k /\ r.is_deleted
PulledDeletedSession(s, k) == \E r \in h[s].serverSessions : r.id = k /\ r.is_deleted

\* C5 (state part): a tombstoned record is stored with deleted=true, is in no
\* active listing of its owner, and is in the payload (flagged deleted) of
\* every full pull of its owner
C5_TombstoneVisible ==
    /\ \A k \in ProjectKeys :
          (projects[k].exists /\ projects[k].is_deleted) =>
              LET u == projects[k].user_id
              IN  /\ \A r \in ListProjects(u) \cup GetProjectsByUserID(u) : r.id # k
                  /\ \A s \in Slots :
                        (Done(s) /\ h[s].userID = u /\ h[s].deviceLastSyncTime = 0)
                            => PulledDeletedProject(s, k)
    /\ \A k \in SessionKeys :
          (timer_sessions[k].exists /\ timer_sessions[k].is_deleted) =>
              LET u == timer_sessions[k].user_id
              IN  /\ \A r \in ListSessions(u) \cup GetSessionsByUserID(u) : r.id # k
                  /\ \A s \in Slots :
                        (Done(s) /\ h[s].userID = u /\ h[s].deviceLastSyncTime = 0)
                            => PulledDeletedSession(s, k)

\* C5. Tombstone durability: once a record is stored with deleted=true it is
\* stored with deleted=true in every later state (no operation recreates it),
\* and in each of these states it is returned, flagged deleted, by a full pull
\* of its owner and is absent from ListProjects, ListSessions,
\* GetProjectsByUserID and GetSessionsByUserID.
C5_TombstoneDurability ==
    /\ []C5_TombstoneVisible
    /\ [][/\ \A k \in ProjectKeys :
                (projects[k].exists /\ projects[k].is_deleted)
                    => (projects'[k].exists /\ projects'[k].is_deleted)
          /\ \A k \in SessionKeys :
                (timer_sessions[k].exists /\ timer_sessions[k].is_deleted)
                    => (timer_sessions'[k].exists /\ timer_sessions'[k].is_deleted)]_vars

\* C5 witness: a project and a session that were tombstoned before have been
\* upserted again, with is_deleted=false in the pushed records, by a committed
\* exchange whose full pull returned them
C5_Witness ==
    \E s \in Slots :
        /\ Done(s) /\ h[s].deviceLastSyncTime = 0
        /\ h[s].req.DeletedProjects = <<>> /\ h[s].req.DeletedSessions = <<>>
        /\ h[s].req.LocalProjects # <<>> /\ h[s].req.LocalSessions # <<>>
        /\ LET p == h[s].req.LocalProjects[1]
               x == h[s].req.LocalSessions[1]
           IN  /\ ~p.is_deleted /\ ~x.is_deleted
               /\ h[s].before[1][p.id].exists /\ h[s].before[1][p.id].is_deleted
               /\ h[s].before[2][x.id].exists /\ h[s].before[2][x.id].is_deleted
               /\ projects[p.id].user_id = h[s].userID
               /\ projects[p.id].updated_at = h[s].txStart
               /\ PulledDeletedProject(s, p.id) /\ PulledDeletedSession(s, x.id)

\* two rows that differ at most in updated_at
SameButUpdatedAt(r1, r2) ==
    /\ r1.exists = r2.exists
    /\ r1.exists => [r1 EXCEPT !.updated_at = 0] = [r2 EXCEPT !.updated_at = 0]

\* the four lists of a push batch
Batch(req) ==
    <<req.LocalProjects, req.LocalSessions, req.DeletedSessions, req.DeletedProjects>>

ClientIdsOnly(req) ==
    /\ \A n \in 1..Len(req.LocalProjects) : req.LocalProjects[n].id # Nil
    /\ \A n \in 1..Len(req.LocalSessions) : req.LocalSessions[n].id # Nil

\* the step commits the batch that the last committed exchange, of the same
\* owner, committed
IsRetryCommit ==
    \E s \in Slots :
        /\ h[s].pc = "commit" /\ h'[s].pc = "done"
        /\ lastCommit.userID = h[s].userID
        /\ Batch(lastCommit.req) = Batch(h[s].req)
        /\ Batch(h[s].req) # <<<<>>, <<>>, <<>>, <<>>>>
        /\ ClientIdsOnly(h[s].req)

\* C7. Idempotent retry: the commit of a batch identical to the batch the same
\* owner committed last (every record with a client-supplied id) creates no
\* record and leaves every record with the fields and the deleted flag it had;
\* only updated_at (and the cursor) may change.
C7_IdempotentRetry ==
    [][IsRetryCommit =>
          /\ \A k \in ProjectKeys : SameButUpdatedAt(projects[k], projects'[k])
          /\ \A k \in SessionKeys : SameButUpdatedAt(timer_sessions[k], timer_sessions'[k])]_vars

\* C7 witness: the batch committed last was committed twice in a row; it
\* upserts a project and a session and deletes the project, and the retry
\* refreshed updated_at
C7_Witness ==
    \E s \in Slots :
        /\ Done(s) /\ lastCommit.slot = s
        /\ h[s].req.LocalProjects # <<>> /\ h[s].req.LocalSessions # <<>>
        /\ h[s].req.DeletedProjects # <<>>
        /\ LET k == h[s].req.LocalProjects[1].id
               was == h[s].before[1][k]
           IN  /\ was.exists /\ was.user_id = h[s].userID
               /\ SameButUpdatedAt(was, projects[k])
               /\ was.updated_at < projects[k].updated_at
               /\ projects[k].is_deleted
               /\ MutableProject(was) = MutableProject(h[s].req.LocalProjects[1])
               /\ h[s].req.DeletedProjects = <<k>>


\* ------------------------------------------------------------- claims under SpecPull
\* the cursor row of the exchange's device as it was when the exchange began
CursorBefore(s) == h[s].before[3][<<h[s].userID, h[s].req.DeviceID>>]

\* the request carried the asOf the device last received (zero when it never
\* completed an exchange)
HonestCursor(s) ==
    h[s].req.LastSyncTime = (IF CursorBefore(s) = NoCursor THEN 0 ELSE CursorBefore(s))

\* the ids of the records in the pull payload of handler s
PulledIds(s) ==
    {r.id : r \in h[s].serverProjects} \cup {r.id : r \in h[s].serverSessions}

\* the payload holds the rows as they are stored after the exchange
PulledAsStored(s) ==
    /\ \A r \in h[s].serverProjects : r = ProjectResult(r.id, projects[r.id])
    /\ \A r \in h[s].serverSessions : r = SessionResult(r.id, timer_sessions[r.id])

\* C4 as stated: the next pull of a device, sent with the asOf it last
\* received, returns every record that another device of the owner pushed since
\* (device A's case) and every record the device itself pushed in its previous
\* exchange (device B's case).
C4_NextPullOfEitherDevice ==
    \A s \in Slots :
        (Done(s) /\ HonestCursor(s)) =>
            (h[s].owedBefore \cup h[s].ownBefore) \subseteq PulledIds(s)

\* C4. Cross-device propagation: an exchange of a device which sent the asOf it
\* last received returns, with the values now stored (those of the push that
\* committed last), exactly the records that other devices of the owner
\* changed since the device's last exchange and the records this exchange
\* itself changed.  A record that only the device's own previous exchange
\* pushed is not returned again.
C4_CrossDevicePropagation ==
    \A s \in Slots :
        (Done(s) /\ HonestCursor(s) /\ CursorBefore(s) # NoCursor) =>
            /\ PulledIds(s) = h[s].owedBefore \cup lastCommit.changed
            /\ PulledAsStored(s)

\* C4 witness: device A pushed project p1, device B of the same owner then
\* pushed p1 with other values, and A's next exchange, with an empty batch and
\* the asOf A last received, returned p1 with B's values.
C4_Witness ==
    \E s \in Slots :
        /\ Done(s) /\ HonestCursor(s) /\ CursorBefore(s) # NoCursor
        /\ h[s].req.DeviceID = "dA"
        /\ Batch(h[s].req) = <<<<>>, <<>>, <<>>, <<>>>>
        /\ h[s].owedBefore = {"p1"} /\ h[s].ownBefore = {"p1"}
        /\ \E r \in h[s].serverProjects :
              /\ r.id = "p1"
              /\ MutableProject(r) = MutableProject(ProjectPayload("p1", "B"))

\* the rows of owner u, as a pull returns them
AllProjectsOf(u) ==
    {ProjectResult(k, projects[k]) :
        k \in {j \in ProjectKeys : projects[j].exists /\ projects[j].user_id = u}}

AllSessionsOf(u) ==
    {SessionResult(k, timer_sessions[k]) :
        k \in {j \in SessionKeys : timer_sessions[j].exists /\ timer_sessions[j].user_id = u}}

\* C8. First sync: an exchange of a device that had no cursor row, with an
\* empty push batch, returns every record of the owner.
C8_FirstSyncReturnsAll ==
    \A s \in Slots :
        (/\ Done(s)
         /\ CursorBefore(s) = NoCursor
         /\ Batch(h[s].req) = <<<<>>, <<>>, <<>>, <<>>>>)
        => /\ h[s].serverProjects = AllProjectsOf(h[s].userID)
           /\ h[s].serverSessions = AllSessionsOf(h[s].userID)


\* ------------------------------------------------------------- claims under SpecSessions
\* C1. Atomicity on failure: when an exchange has ended in a failure (the
\* caller got an error status), the store (every project and session row and
\* every cursor row) equals the store as it was when the exchange began.
C1_FailureLeavesStore ==
    \A s \in Slots :
        h[s].pc = "failed" => <<projects, timer_sessions, device_sync>> = h[s].before

\* C6. Tombstone propagation: a sync pull that no cursor restricts (the GET
\* pull, or an exchange sent with the zero time) returns, flagged deleted,
\* every tombstoned record of its owner.
C6_PullIncludesTombstones ==
    \A s \in Slots :
        (Done(s) /\ (h[s].method = "GET" \/ h[s].deviceLastSyncTime = 0)) =>
            /\ \A k \in ProjectKeys :
                  (projects[k].exists /\ projects[k].is_deleted
                      /\ projects[k].user_id = h[s].userID) => PulledDeletedProject(s, k)
            /\ \A k \in SessionKeys :
                  (timer_sessions[k].exists /\ timer_sessions[k].is_deleted
                      /\ timer_sessions[k].user_id = h[s].userID) => PulledDeletedSession(s, k)

\* ------------------------------------------------------------- claims under SpecConc
\* the row versions written by the exchange of handler w that the payload of
\* handler r holds
SeenOf(r, w) ==
    {k \in h[w].changed :
        \E x \in h[r].serverProjects \cup h[r].serverSessions :
            x.id = k /\ x.version = h[w].txStart}

\* every row the exchange of handler w changed is stored as w wrote it
StoredAsWrittenBy(w) ==
    \A k \in h[w].changed :
        IF k \in ProjectKeys THEN projects[k].updated_at = h[w].txStart
        ELSE timer_sessions[k].updated_at = h[w].txStart

\* C9. No partial application: the read-back of an exchange that pushed nothing
\* and asked for the full data set holds, of the rows that another exchange of
\* the same owner wrote, either all or none.
C9_NoPartialApplication ==
    \A r \in Slots : \A w \in Slots \ {r} :
        (/\ Done(r) /\ Done(w) /\ h[r].userID = h[w].userID
         /\ Batch(h[r].req) = <<<<>>, <<>>, <<>>, <<>>>>
         /\ h[r].deviceLastSyncTime = 0
         /\ StoredAsWrittenBy(w))
        => SeenOf(r, w) \in {{}, h[w].changed}

\* the two handlers ran exchanges that overlapped in time
Overlapped(s, t) == h[s].txStart < h[t].now /\ h[t].txStart < h[s].now

\* C10. Overlapping pushes of one record: when two exchanges of one owner that
\* both upsert project id X have finished, the mutable fields stored under X
\* are, all of them, the fields pushed by the exchange that committed last.
C10_LastCommitterWins ==
    \A s \in Slots : \A t \in Slots \ {s} :
        (/\ Done(s) /\ Done(t) /\ h[s].userID = h[t].userID
         /\ lastCommit.slot = s)
        => \A n \in 1..Len(h[s].req.LocalProjects) :
              LET p == h[s].req.LocalProjects[n]
              IN  (/\ \E m \in 1..Len(h[t].req.LocalProjects) :
                          h[t].req.LocalProjects[m].id = p.id
                   /\ p.id # Nil
                   /\ projects[p.id].exists /\ projects[p.id].user_id = h[s].userID)
                  => MutableProject(projects[p.id]) = MutableProject(p)

\* C10 witness: two exchanges overlapped, both pushed project p1 with different
\* values, and the one that committed last had begun first: the row holds its
\* values.
C10_Witness ==
    \E s \in Slots : \E t \in Slots \ {s} :
        /\ Done(s) /\ Done(t) /\ Overlapped(s, t)
        /\ lastCommit.slot = s
        /\ h[s].txStart < h[t].txStart
        /\ h[s].req.LocalProjects = <<ProjectPayload("p1", "B")>>
        /\ h[t].req.LocalProjects = <<ProjectPayload("p1", "A")>>
        /\ MutableProject(projects["p1"]) = MutableProject(ProjectPayload("p1", "B"))


\* ------------------------------------------------------------- SpecDelta
\* SpecDelta: two devices of one owner, each running one exchange of sync.go at
\* a time, the exchanges of the two devices overlapping freely; a device always
\* sends the asOf it last received (the zero time before its first exchange).
DeviceOf(s) == IF s = 1 THEN "dA" ELSE "dB"

HonestLastSyncTime(u, d) ==
    IF device_sync[<<u, d>>] = NoCursor THEN 0 ELSE device_sync[<<u, d>>]

DeltaRequests(s, u) ==
    {Request(DeviceOf(s), HonestLastSyncTime(u, DeviceOf(s)), b[1], b[2], <<>>, <<>>) :
        b \in ConcBatches}

NextDelta ==
    \/ \E s \in ConcSlots, u \in PullOwners : \E req \in DeltaRequests(s, u) :
          ClockAllows(MaxDeltaTime) /\ SyncData_Begin(s, u, req)
    \/ \E s \in ConcSlots : SyncData_DeviceSync(s)
    \/ \E s \in ConcSlots : SyncData_Project(s)
    \/ \E s \in ConcSlots : SyncData_Session(s)
    \/ \E s \in ConcSlots : SyncData_QuerySessions(s)
    \/ \E s \in ConcSlots : SyncData_QueryProjects(s)
    \/ \E s \in ConcSlots : SyncData_UpdateSyncTime(s)
    \/ \E s \in ConcSlots : SyncData_Commit(s)
    \/ \E s \in ConcSlots : SyncData_Error(s)

SpecDelta == InitConc /\ [][NextDelta]_vars

\* the stored row under key k
StoredRow(k) == IF k \in ProjectKeys THEN projects[k] ELSE timer_sessions[k]

\* C11. Delta-pull completeness under overlap: when device B's exchange w has
\* committed a change of record k that is still the stored version, and device
\* A's exchange r began before w committed (so that no earlier exchange of A
\* can have returned the change), then either the payload of r holds that
\* version of k, or the version lies after A's cursor, where A's next pull
\* finds it.
C11_DeltaCompleteUnderOverlap ==
    \A r \in Slots : \A w \in Slots \ {r} :
        (/\ Done(r) /\ Done(w) /\ h[r].userID = h[w].userID
         /\ h[r].txStart < h[w].now)
        => \A k \in h[w].changed :
              StoredRow(k).updated_at = h[w].txStart
              => \/ k \in SeenOf(r, w)
                 \/ StoredRow(k).updated_at
                       > device_sync[<<h[r].userID, h[r].req.DeviceID>>]


\* ------------------------------------------------------------- SpecAuth
\* mutant: the handlers serve a request without an owner
AuthorizedAlways(userID) == TRUE

\* userID := auth.GetUserIDFromContext(r.Context()); if userID == uuid.Nil {
\* http.Error 401; return }: the owner is present
Authorized(userID) == userID # Nil

\* sync.go lines 29-33: the request carries no owner; 401 and return, before
\* the body is decoded and before Begin
SyncData_Unauthorized(s) ==
    /\ h[s].pc \in {"idle", "done", "failed"}
    /\ h' = [h EXCEPT ![s] = [IdleHandler EXCEPT
                !.pc = "failed", !.status = 401,
                !.before = <<projects, timer_sessions, device_sync>>]]
    /\ UNCHANGED <<projects, timer_sessions, device_sync, clock, owed, own, lastCommit>>

\* sync.go lines 28-47: SyncData from its first line
SyncData_Serve(s, userID, req) ==
    IF Authorized(userID) THEN SyncData_Begin(s, userID, req)
    ELSE SyncData_Unauthorized(s)

\* sync.go lines 256-276: SyncStatus.  It reads user_sync_status, a table that
\* no statement of the program writes: the query finds no row and the handler
\* answers the zero time.  Without an owner: 401 and return.
SyncStatus(s, userID) ==
    /\ h[s].pc \in {"idle", "done", "failed"}
    /\ h' = [h EXCEPT ![s] =
                IF Authorized(userID)
                THEN [IdleHandler EXCEPT !.pc = "done", !.userID = userID,
                          !.method = "STATUS", !.status = 200, !.now = 0,
                          !.before = <<projects, timer_sessions, device_sync>>]
                ELSE [IdleHandler EXCEPT !.pc = "failed", !.method = "STATUS",
                          !.status = 401,
                          !.before = <<projects, timer_sessions, device_sync>>]]
    /\ UNCHANGED <<projects, timer_sessions, device_sync, clock, owed, own, lastCommit>>

\* the owner of a request: one of the owners, or none
Callers == Owners \cup {Nil}

\* SpecAuth: Spec with requests that carry no owner, and the status query
NextAuth ==
    \/ \E s \in SeqSlots, u \in Callers, req \in MergeRequests :
          ClockAllows(MaxTime) /\ SyncData_Serve(s, u, req)
    \/ \E s \in SeqSlots, u \in Callers : SyncStatus(s, u)
    \/ \E s \in SeqSlots : SyncData_DeviceSync(s)
    \/ \E s \in SeqSlots : SyncData_Project(s)
    \/ \E s \in SeqSlots : SyncData_Session(s)
    \/ \E s \in SeqSlots : SyncData_DeletedSessions(s)
    \/ \E s \in SeqSlots : SyncData_DeletedProjects(s)
    \/ \E s \in SeqSlots : SyncData_QuerySessions(s)
    \/ \E s \in SeqSlots : SyncData_QueryProjects(s)
    \/ \E s \in SeqSlots : SyncData_UpdateSyncTime(s)
    \/ \E s \in SeqSlots : SyncData_Commit(s)
    \/ \E s \in SeqSlots : SyncData_Error(s)

SpecAuth == Init /\ [][NextAuth]_vars

\* C12. Unauthorized requests: every step that serves a request without an
\* owner (a sync exchange or a status query) ends the request at once with
\* status 401, opens no transaction, reads no clock, and leaves every record
\* and every cursor as it was.
C12_UnauthorizedRejected ==
    [][\A s \in Slots :
          (h'[s] # h[s] /\ h'[s].userID = Nil) =>
              /\ h'[s].pc = "failed" /\ h'[s].status = 401
              /\ h'[s].txStart = 0 /\ ~h'[s].committed
              /\ UNCHANGED <<projects, timer_sessions, device_sync, clock>>]_vars

\* C12 witness: a sync exchange without an owner was answered 401 while the
\* store held a project and a cursor, which are as they were
C12_Witness ==
    \E s \in Slots :
        /\ h[s].pc = "failed" /\ h[s].status = 401 /\ h[s].method = "POST"
        /\ projects["p1"].exists
        /\ device_sync[<<"u1", "dA">>] # NoCursor
        /\ h[s].before = <<projects, timer_sessions, device_sync>>


\* ------------------------------------------------------------- more claims under Spec
\* C13. Forced owner: every row that comes into existence is created by the
\* commit of an exchange of the owner it is stored under, i.e. a created
\* record carries the authenticated owner of its exchange and never the owner
\* value of the pushed record.
C13_CreatedWithAuthenticatedOwner ==
    [][/\ \A k \in ProjectKeys :
             (~projects[k].exists /\ projects'[k].exists)
                 => CommitOf(projects'[k].user_id)
       /\ \A k \in SessionKeys :
             (~timer_sessions[k].exists /\ timer_sessions'[k].exists)
                 => CommitOf(timer_sessions'[k].user_id)]_vars

\* C13 witness: a committed exchange created a project and a session from
\* pushed records that named another owner; both are stored under the owner of
\* the exchange.
C13_Witness ==
    \E s \in Slots :
        /\ Done(s)
        /\ h[s].req.LocalProjects # <<>> /\ h[s].req.LocalSessions # <<>>
        /\ LET p == h[s].req.LocalProjects[1]
               x == h[s].req.LocalSessions[1]
           IN  /\ p.user_id # h[s].userID /\ x.user_id # h[s].userID
               /\ ~h[s].before[1][p.id].exists /\ ~h[s].before[2][x.id].exists
               /\ projects[p.id].exists /\ projects[p.id].user_id = h[s].userID
               /\ timer_sessions[x.id].exists
               /\ timer_sessions[x.id].user_id = h[s].userID


\* a table with the rows of every owner but u removed
OwnOnly(table, u) ==
    [k \in DOMAIN table |->
        IF table[k].exists /\ table[k].user_id = u THEN table[k] ELSE NoRow]

\* sync.go lines 63-94 as a function: the projects table after the upserts of
\* records n.. of the list lp (client-supplied ids), made for owner u at time ts
RECURSIVE ApplyProjects(_, _, _, _, _)
ApplyProjects(table, lp, n, u, ts) ==
    IF n > Len(lp) THEN table
    ELSE LET p == ForceOwner(lp[n], u)
         IN  ApplyProjects([table EXCEPT ![p.id] = ProjectUpsert(table[p.id], p, ts)],
                           lp, n + 1, u, ts)

\* sync.go lines 146-159 as a function
ApplyDeletedProjects(table, dp, u, ts) ==
    [k \in DOMAIN table |->
        IF k \in Range(dp) /\ table[k].exists /\ table[k].user_id = u
        THEN Tombstone(table[k], u, ts) ELSE table[k]]

\* the projects of the pull payload that the exchange req of owner u, begun at
\* ts, returns when it runs on the projects table `table`
ProjectsPayload(table, u, req, ts) ==
    SelectProjectsSince(
        ApplyDeletedProjects(ApplyProjects(table, req.LocalProjects, 1, u, ts),
                             req.DeletedProjects, u, ts),
        u, req.LastSyncTime)

HeldByOther(was, k, u) == was[k].exists /\ was[k].user_id # u

\* C15 (statement part): the session upsert that handler s is about to run
\* raises no error on account of a record whose id another owner holds
C15_MismatchRaisesNoError ==
    \A s \in Slots :
        (h[s].pc = "sessions" /\ h[s].req.LocalSessions[h[s].i].id # Nil) =>
            LET x == ForceOwner(h[s].req.LocalSessions[h[s].i], h[s].userID)
            IN  HeldByOther(VisSessions(s), x.id, h[s].userID)
                   => ~SessionFKViolated(VisSessions(s)[x.id], x, VisProjects(s))

\* C15. Ownership mismatch is a per-record skip: the session upsert raises no
\* error for a record whose id another owner holds, and when the exchange has
\* answered 200 it has committed, every such record of its batch is stored as
\* it was before the exchange, and every other record of the batch is stored
\* under the owner of the exchange with the pushed values.
C15_MismatchSkipsRecordOnly ==
    /\ C15_MismatchRaisesNoError
    /\ \A s \in Slots :
          (Done(s) /\ h[s].method = "POST" /\ ClientIdsOnly(h[s].req)) =>
              /\ h[s].status = 200 /\ h[s].committed
              /\ \A n \in 1..Len(h[s].req.LocalProjects) :
                    LET p == h[s].req.LocalProjects[n]
                    IN  IF HeldByOther(h[s].before[1], p.id, h[s].userID)
                        THEN projects[p.id] = h[s].before[1][p.id]
                        ELSE /\ projects[p.id].exists
                             /\ projects[p.id].user_id = h[s].userID
                             /\ MutableProject(projects[p.id]) = MutableProject(p)
              /\ \A n \in 1..Len(h[s].req.LocalSessions) :
                    LET x == h[s].req.LocalSessions[n]
                    IN  IF HeldByOther(h[s].before[2], x.id, h[s].userID)
                        THEN timer_sessions[x.id] = h[s].before[2][x.id]
                        ELSE /\ timer_sessions[x.id].exists
                             /\ timer_sessions[x.id].user_id = h[s].userID
                             /\ MutableSession(timer_sessions[x.id]) = MutableSession(x)

\* C15 witness: a committed exchange pushed a session id that another owner
\* holds together with a project of its own: the session is as it was, the
\* project is stored with the pushed values.
C15_Witness ==
    \E s \in Slots :
        /\ Done(s) /\ h[s].status = 200
        /\ h[s].req.LocalProjects # <<>> /\ h[s].req.LocalSessions # <<>>
        /\ LET p == h[s].req.LocalProjects[1]
               x == h[s].req.LocalSessions[1]
           IN  /\ HeldByOther(h[s].before[2], x.id, h[s].userID)
               /\ MutableSession(h[s].before[2][x.id]) # MutableSession(x)
               /\ timer_sessions[x.id] = h[s].before[2][x.id]
               /\ ~HeldByOther(h[s].before[1], p.id, h[s].userID)
               /\ projects[p.id].updated_at = h[s].txStart
               /\ MutableProject(projects[p.id]) = MutableProject(p)


\* the ids of the records of a list of pushed records
IdsOf(list) == {list[n].id : n \in 1..Len(list)}

\* C16. Tombstoning by id list: when an exchange with ids in its deletion
\* lists has answered, it has answered 200 and committed, and for every id k
\* it named: a row another owner holds is as it was; an id under which nothing
\* was stored (and which the batch did not upsert) still has no row; a row of
\* the caller, tombstoned before or not, is stored with deleted=true and with
\* updated_at refreshed to the time of this exchange.
C16_TombstoneByIdList ==
    \A s \in Slots :
        (Done(s) /\ h[s].method = "POST") =>
            LET u == h[s].userID
                wasP == h[s].before[1]
                wasS == h[s].before[2]
            IN  /\ h[s].status = 200 /\ h[s].committed
                /\ \A k \in Range(h[s].req.DeletedProjects) :
                      /\ HeldByOther(wasP, k, u) => projects[k] = wasP[k]
                      /\ (~wasP[k].exists /\ k \notin IdsOf(h[s].req.LocalProjects))
                            => ~projects[k].exists
                      /\ (projects[k].exists /\ projects[k].user_id = u)
                            => /\ projects[k].is_deleted
                               /\ projects[k].updated_at = h[s].txStart
                               /\ wasP[k].exists => wasP[k].updated_at < projects[k].updated_at
                /\ \A k \in Range(h[s].req.DeletedSessions) :
                      /\ HeldByOther(wasS, k, u) => timer_sessions[k] = wasS[k]
                      /\ (~wasS[k].exists /\ k \notin IdsOf(h[s].req.LocalSessions))
                            => ~timer_sessions[k].exists
                      /\ (timer_sessions[k].exists /\ timer_sessions[k].user_id = u)
                            => /\ timer_sessions[k].is_deleted
                               /\ timer_sessions[k].updated_at = h[s].txStart
                               /\ wasS[k].exists
                                     => wasS[k].updated_at < timer_sessions[k].updated_at

\* C16 witness: a committed exchange, with no upserts, named a project id
\* under which nothing is stored and a session of the caller that was
\* tombstoned already: there is still no such project, the session is still
\* tombstoned and its updated_at is refreshed.
C16_Witness ==
    \E s \in Slots :
        /\ Done(s) /\ h[s].status = 200
        /\ h[s].req.LocalProjects = <<>> /\ h[s].req.LocalSessions = <<>>
        /\ h[s].req.DeletedProjects = <<"p1">> /\ h[s].req.DeletedSessions = <<"s1">>
        /\ ~h[s].before[1]["p1"].exists /\ ~projects["p1"].exists
        /\ h[s].before[2]["s1"].exists /\ h[s].before[2]["s1"].user_id = h[s].userID
        /\ h[s].before[2]["s1"].is_deleted
        /\ timer_sessions["s1"].is_deleted
        /\ timer_sessions["s1"].updated_at = h[s].txStart


\* sync.go lines 96-129 as a function: the sessions table after the upserts of
\* records n.. of the list ls (client-supplied ids)
RECURSIVE ApplySessions(_, _, _, _, _)
ApplySessions(table, ls, n, u, ts) ==
    IF n > Len(ls) THEN table
    ELSE LET x == ForceOwner(ls[n], u)
         IN  ApplySessions([table EXCEPT ![x.id] = SessionUpsert(table[x.id], x, ts)],
                           ls, n + 1, u, ts)

\* sync.go lines 131-144 as a function
ApplyDeletedSessions(table, ds, u, ts) ==
    [k \in DOMAIN table |->
        IF k \in Range(ds) /\ table[k].exists /\ table[k].user_id = u
        THEN Tombstone(table[k], u, ts) ELSE table[k]]

\* C17. Push success implies the whole batch committed: when an exchange has
\* answered 200 with a pull payload, its transaction has committed and the
\* store is the store as it was before the exchange with every upsert and
\* every tombstone of the batch applied (an upsert under an id that another
\* owner holds being the only one without effect).
C17_SuccessImpliesWholeBatch ==
    \A s \in Slots :
        (Done(s) /\ h[s].method = "POST" /\ ClientIdsOnly(h[s].req)) =>
            LET u == h[s].userID
                req == h[s].req
                ts == h[s].txStart
            IN  /\ h[s].status = 200 /\ h[s].committed
                /\ projects
                     = ApplyDeletedProjects(
                           ApplyProjects(h[s].before[1], req.LocalProjects, 1, u, ts),
                           req.DeletedProjects, u, ts)
                /\ timer_sessions
                     = ApplyDeletedSessions(
                           ApplySessions(h[s].before[2], req.LocalSessions, 1, u, ts),
                           req.DeletedSessions, u, ts)

\* C17 witness: an exchange answered 200 for a batch that upserts a project
\* and a session and tombstones both: all four lists are non-empty, the project
\* and the session are new, and both are stored, tombstoned, with the pushed
\* values.
C17_Witness ==
    \E s \in Slots :
        /\ Done(s) /\ h[s].status = 200 /\ h[s].committed
        /\ h[s].req.LocalProjects = <<ProjectPayload("p1", "B")>>
        /\ h[s].req.LocalSessions = <<SessionPayload("s1", "B")>>
        /\ h[s].req.DeletedProjects = <<"p1">> /\ h[s].req.DeletedSessions = <<"s1">>
        /\ ~h[s].before[1]["p1"].exists /\ ~h[s].before[2]["s1"].exists
        /\ projects["p1"].is_deleted /\ timer_sessions["s1"].is_deleted
        /\ MutableProject(projects["p1"]) = MutableProject(ProjectPayload("p1", "B"))
        /\ timer_sessions["s1"].project_id = "p1"


\* ------------------------------------------------------------- more claims under SpecPull
\* the last_sync_time the server held for the device of exchange s before the
\* exchange (the zero time when it held none)
PriorCursor(s) == IF CursorBefore(s) = NoCursor THEN 0 ELSE CursorBefore(s)

\* C18. Delta by the server's prior cursor: the pull payload of an exchange is
\* exactly the owner's records whose updated_at is later than the
\* last_sync_time the server held for the device before the exchange.
C18_DeltaUsesPriorCursor ==
    \A s \in Slots :
        Done(s) =>
            /\ h[s].serverProjects
                  = SelectProjectsSince(projects, h[s].userID, PriorCursor(s))
            /\ h[s].serverSessions
                  = SelectSessionsSince(timer_sessions, h[s].userID, PriorCursor(s))


\* ------------------------------------------------------------- more claims under SpecConc
\* C19. Authoritative payload: in the state an exchange's commit leaves (no
\* other exchange having committed since), every record of its pull payload
\* has the field values, the deleted flag and the version of the stored row.
C19_PayloadIsStoreAtCommit ==
    \A s \in Slots :
        (Done(s) /\ lastCommit.slot = s) =>
            /\ \A r \in h[s].serverProjects : r = ProjectResult(r.id, projects[r.id])
            /\ \A r \in h[s].serverSessions : r = SessionResult(r.id, timer_sessions[r.id])


\* the step is the commit of an exchange of owner and device ud
CommitOfDevice(ud) ==
    \E s \in Slots : /\ h[s].pc = "commit" /\ h'[s].pc = "done"
                     /\ <<h[s].userID, h[s].req.DeviceID>> = ud

\* C20. One cursor row per (owner, device): device_sync is keyed by (user_id,
\* device_id), its primary key.  The row of a pair comes into existence at the
\* commit of the pair's first exchange, is set to the asOf of the exchange at
\* the commit of every exchange of the pair (two overlapping first exchanges
\* of one device included), changes at no other step, and once it exists it
\* exists in every later state.
C20_OneCursorRowPerDevice ==
    [][\A ud \in Owners \X Devices :
          /\ device_sync[ud] # NoCursor => device_sync'[ud] # NoCursor
          /\ device_sync'[ud] # device_sync[ud] => CommitOfDevice(ud)
          /\ CommitOfDevice(ud) =>
                \E s \in Slots : /\ h[s].pc = "commit" /\ h'[s].pc = "done"
                                 /\ device_sync'[ud] = h[s].now
                                 /\ h[s].now > 0]_vars

\* C20 witness: two first exchanges of the same device overlapped and both
\* committed; the device has its row, holding the asOf of the exchange that
\* committed last.
C20_Witness ==
    \E s \in Slots : \E t \in Slots \ {s} :
        /\ Done(s) /\ Done(t) /\ Overlapped(s, t)
        /\ h[s].userID = h[t].userID /\ h[s].req.DeviceID = h[t].req.DeviceID
        /\ lastCommit.slot = s
        /\ device_sync[<<h[s].userID, h[s].req.DeviceID>>] = h[s].now
        /\ \A ud \in (Owners \X Devices) \ {<<h[s].userID, h[s].req.DeviceID>>} :
              device_sync[ud] = NoCursor


\* ------------------------------------------------------------- more claims under SpecPull
\* C21. Cursor advance: while the response of a successful exchange of device
\* D of owner U is the last thing that happened, the stored cursor of (U, D) is
\* the reading of the server clock that the exchange took (the latest reading
\* there is), which is the last_sync_time of the response, and it is later than
\* the last_sync_time the client sent: the client's value is not what is stored.
C21_CursorIsServerTime ==
    \A s \in Slots :
        Done(s) =>
            LET stored == device_sync[<<h[s].userID, h[s].req.DeviceID>>]
            IN  /\ stored = h[s].now
                /\ stored = clock
                /\ stored > h[s].txStart
                /\ stored # h[s].req.LastSyncTime
                /\ stored > h[s].deviceLastSyncTime

\* C21 witness: a device that sent a cursor of its own (not zero) completed an
\* exchange, its second; the stored cursor is the server's reading
C21_Witness ==
    \E s \in Slots :
        /\ Done(s)
        /\ h[s].req.LastSyncTime > 0
        /\ CursorBefore(s) # NoCursor
        /\ h[s].deviceLastSyncTime = h[s].req.LastSyncTime
        /\ device_sync[<<h[s].userID, h[s].req.DeviceID>>] = h[s].now
        /\ h[s].now > h[s].req.LastSyncTime


\* ------------------------------------------------------------- more claims under SpecConc
\* C22. updated_at: the updated_at of every stored row is a reading of the
\* server clock (never the updated_at the client put in the record), and every
\* step that changes a stored row leaves it with a later updated_at than it had.
C22_UpdatedAtStrictlyIncreases ==
    [][/\ \A k \in ProjectKeys :
            /\ projects'[k].exists => projects'[k].updated_at \in 1..clock'
            /\ (projects[k].exists /\ projects'[k] # projects[k])
                  => projects'[k].updated_at > projects[k].updated_at
       /\ \A k \in SessionKeys :
            /\ timer_sessions'[k].exists => timer_sessions'[k].updated_at \in 1..clock'
            /\ (timer_sessions[k].exists /\ timer_sessions'[k] # timer_sessions[k])
                  => timer_sessions'[k].updated_at > timer_sessions[k].updated_at]_vars


\* ------------------------------------------------------------- more claims under Spec
\* the session that handler s is about to upsert names a project that the
\* transaction does not see (no row under that id, of any owner)
AtDanglingSession(s) ==
    /\ h[s].pc = "sessions"
    /\ LET x == h[s].req.LocalSessions[h[s].i]
       IN  /\ x.project_id # Null
           /\ ~VisProjects(s)[x.project_id].exists
           /\ ~(VisSessions(s)[x.id].exists /\ VisSessions(s)[x.id].user_id # h[s].userID)

\* C24. Soft reference: whenever an exchange is about to upsert a session
\* whose project_id names a project that does not exist on the server, the
\* upsert can succeed (the statement stores the session and the exchange goes
\* on); the same for a project_id that names a deleted project.
C24_DanglingReferenceAccepted ==
    \A s \in Slots :
        (/\ h[s].pc = "sessions"
         /\ h[s].req.LocalSessions[h[s].i].project_id # Null)
            => ENABLED (SyncData_Session(s) /\ h'[s].pc # "failed")

\* the part of C24 that the code keeps: a session that names a deleted
\* project, or a project upserted earlier in the same batch, can be stored
C24_DeletedOrSameBatchAccepted ==
    \A s \in Slots :
        (/\ h[s].pc = "sessions"
         /\ h[s].req.LocalSessions[h[s].i].project_id # Null
         /\ ~AtDanglingSession(s))
            => ENABLED (SyncData_Session(s) /\ h'[s].pc # "failed")


\* ------------------------------------------------------------- more claims under SpecAuth
\* the last_sync_time of the latest successful exchange of owner u (the latest
\* cursor among u's devices); zero when u never synced
LastSyncOf(u) ==
    LET times == {device_sync[<<u, d>>] : d \in Devices} \cup {0}
    IN  CHOOSE t \in times : \A t2 \in times : t2 <= t

\* C26. Status query: an answered status query of owner U carries the
\* last_sync_time of U's latest successful exchange, and the zero time only
\* when U never synced.
C26_StatusReturnsLastSync ==
    \A s \in Slots :
        (Done(s) /\ h[s].method = "STATUS") => h[s].now = LastSyncOf(h[s].userID)


\* ------------------------------------------------------------- single-record operations
\* The handlers of /api/projects and /api/sessions run one statement each on
\* the pool, outside any transaction block: the statement is its own
\* transaction and CURRENT_TIMESTAMP is the time it runs.  Handler field id is
\* chi.URLParam(r, "id").

\* INSERT INTO projects (id, user_id, name, description, color, device_id,
\* created_at, updated_at): the row CreateProject inserts; is_deleted takes its
\* default
NewProjectRow(p, userID, ts) ==
    [exists |-> TRUE, user_id |-> userID, name |-> p.name,
     description |-> p.description, color |-> p.color, device_id |-> p.device_id,
     is_deleted |-> FALSE, updated_at |-> ts]

\* UPDATE projects SET name = $1, description = $2, color = $3, updated_at = $4
\* WHERE id = $5 AND user_id = $6, on the row under $5; the BEFORE UPDATE
\* trigger sets updated_at to CURRENT_TIMESTAMP
UpdateProjectRow(row, p, userID, ts) ==
    IF row.exists /\ row.user_id = userID
    THEN [row EXCEPT !.name = p.name, !.description = p.description,
                     !.color = p.color, !.updated_at = ts]
    ELSE row

\* INSERT INTO timer_sessions (id, user_id, project_id, start_time, end_time,
\* description, device_id): the row CreateSession inserts; is_deleted and
\* updated_at take their defaults
NewSessionRow(x, userID, ts) ==
    [exists |-> TRUE, user_id |-> userID, project_id |-> x.project_id,
     start_time |-> x.start_time, end_time |-> x.end_time,
     description |-> x.description, device_id |-> x.device_id,
     is_deleted |-> FALSE, updated_at |-> ts]

\* UPDATE timer_sessions SET project_id = $1, start_time = $2, end_time = $3,
\* description = $4 WHERE id = $5 AND user_id = $6; the BEFORE UPDATE trigger
\* sets updated_at
UpdateSessionRow(row, x, userID, ts) ==
    IF row.exists /\ row.user_id = userID
    THEN [row EXCEPT !.project_id = x.project_id, !.start_time = x.start_time,
                     !.end_time = x.end_time, !.description = x.description,
                     !.updated_at = ts]
    ELSE row

\* mutant: DELETE FROM ... WHERE id = $1 AND user_id = $2
SoftDeleteErases(row, userID, ts) ==
    IF row.exists /\ row.user_id = userID THEN NoRow ELSE row

\* mutant: the delete without its AND user_id = $2
SoftDeleteAnyOwner(row, userID, ts) ==
    IF row.exists THEN [row EXCEPT !.is_deleted = TRUE, !.updated_at = ts] ELSE row

\* UPDATE ... SET is_deleted = true WHERE id = $1 AND user_id = $2, on the row
\* under $1; the BEFORE UPDATE trigger sets updated_at
SoftDelete(row, userID, ts) ==
    IF row.exists /\ row.user_id = userID
    THEN [row EXCEPT !.is_deleted = TRUE, !.updated_at = ts]
    ELSE row

\* result.RowsAffected() of a statement with WHERE id = $1 AND user_id = $2
RowsAffected(row, userID) == IF row.exists /\ row.user_id = userID THEN 1 ELSE 0

\* the handler has answered: its state until the next request
Answered(s, userID, method, id, code) ==
    [IdleHandler EXCEPT !.pc = IF code \in {200, 204} THEN "done" ELSE "failed",
                        !.userID = userID, !.method = method, !.id = id,
                        !.status = code,
                        !.before = <<projects, timer_sessions, device_sync>>]

\* part_004 lines 26-78: CreateProject.  The id is uuid.New(), whatever id the
\* body carries; updated_at is time.Now().
CreateProject(s, userID, p) ==
    /\ h[s].pc \in {"idle", "done", "failed"}
    /\ \E k \in FreshProjectIds :
          /\ projects' = [projects EXCEPT ![k] = NewProjectRow(p, userID, clock + 1)]
          /\ h' = [h EXCEPT ![s] = Answered(s, userID, "CreateProject", k, 200)]
    /\ clock' = clock + 1
    /\ UNCHANGED <<timer_sessions, device_sync, owed, own, lastCommit>>

\* part_004 lines 126-180: UpdateProject.  When the statement updates no row,
\* RETURNING yields none, Scan returns an error and the answer is 500.
UpdateProject(s, userID, k, p) ==
    /\ h[s].pc \in {"idle", "done", "failed"}
    /\ IF RowsAffected(projects[k], userID) = 1
       THEN /\ projects' = [projects EXCEPT
                               ![k] = UpdateProjectRow(projects[k], p, userID, clock + 1)]
            /\ clock' = clock + 1
            /\ h' = [h EXCEPT ![s] = Answered(s, userID, "UpdateProject", k, 200)]
       ELSE /\ h' = [h EXCEPT ![s] = Answered(s, userID, "UpdateProject", k, 500)]
            /\ UNCHANGED <<projects, clock>>
    /\ UNCHANGED <<timer_sessions, device_sync, owed, own, lastCommit>>

\* part_004 lines 182-213: DeleteProject.  204 when a row was updated, 404
\* when none was.
DeleteProject(s, userID, k) ==
    /\ h[s].pc \in {"idle", "done", "failed"}
    /\ projects' = [projects EXCEPT ![k] = SoftDelete(projects[k], userID, clock + 1)]
    /\ IF RowsAffected(projects[k], userID) = 1
       THEN /\ clock' = clock + 1
            /\ h' = [h EXCEPT ![s] = Answered(s, userID, "DeleteProject", k, 204)]
       ELSE /\ h' = [h EXCEPT ![s] = Answered(s, userID, "DeleteProject", k, 404)]
            /\ UNCHANGED clock
    /\ UNCHANGED <<timer_sessions, device_sync, owed, own, lastCommit>>

\* part_006 lines 25-72: CreateSession.  The id is the one of the body; an id
\* in use (primary key) or a project_id that names no project (foreign key) is
\* an error of the statement: 500.
CreateSession(s, userID, x) ==
    /\ h[s].pc \in {"idle", "done", "failed"}
    /\ IF \/ timer_sessions[x.id].exists
          \/ SessionFKViolated(NoRow, x, projects)
       THEN /\ h' = [h EXCEPT ![s] = Answered(s, userID, "CreateSession", x.id, 500)]
            /\ UNCHANGED <<timer_sessions, clock>>
       ELSE /\ timer_sessions' = [timer_sessions EXCEPT
                                     ![x.id] = NewSessionRow(x, userID, clock + 1)]
            /\ clock' = clock + 1
            /\ h' = [h EXCEPT ![s] = Answered(s, userID, "CreateSession", x.id, 200)]
    /\ UNCHANGED <<projects, device_sync, owed, own, lastCommit>>

\* part_006 lines 119-170: UpdateSession.  No row updated, or a project_id that
\* names no project: 500.
UpdateSession(s, userID, k, x) ==
    /\ h[s].pc \in {"idle", "done", "failed"}
    /\ IF /\ RowsAffected(timer_sessions[k], userID) = 1
          /\ ~SessionFKViolated(timer_sessions[k], ForceOwner(x, userID), projects)
       THEN /\ timer_sessions' = [timer_sessions EXCEPT
                   ![k] = UpdateSessionRow(timer_sessions[k], x, userID, clock + 1)]
            /\ clock' = clock + 1
            /\ h' = [h EXCEPT ![s] = Answered(s, userID, "UpdateSession", k, 200)]
       ELSE /\ h' = [h EXCEPT ![s] = Answered(s, userID, "UpdateSession", k, 500)]
            /\ UNCHANGED <<timer_sessions, clock>>
    /\ UNCHANGED <<projects, device_sync, owed, own, lastCommit>>

\* part_006 lines 172-203: DeleteSession
DeleteSession(s, userID, k) ==
    /\ h[s].pc \in {"idle", "done", "failed"}
    /\ timer_sessions' = [timer_sessions EXCEPT
                             ![k] = SoftDelete(timer_sessions[k], userID, clock + 1)]
    /\ IF RowsAffected(timer_sessions[k], userID) = 1
       THEN /\ clock' = clock + 1
            /\ h' = [h EXCEPT ![s] = Answered(s, userID, "DeleteSession", k, 204)]
       ELSE /\ h' = [h EXCEPT ![s] = Answered(s, userID, "DeleteSession", k, 404)]
            /\ UNCHANGED clock
    /\ UNCHANGED <<projects, device_sync, owed, own, lastCommit>>

\* SpecCrud: one request at a time, both owners: sync exchanges that push
\* records with and without an id and tombstone lists, and the single-record
\* operations
MaxCrudTime == 5

CrudBatches ==
    {<< <<>>, <<>>, <<>>, <<>> >>,
     << <<>>, <<ProjectPayload(Nil, "A")>>, <<>>, <<>> >>,
     << <<>>, <<ProjectPayload("p1", "B")>>, <<>>, <<>> >>,
     << <<SessionPayload(Nil, "A")>>, <<>>, <<>>, <<>> >>,
     << <<SessionPayload("s1", "A")>>, <<>>, <<>>, <<>> >>,
     << <<>>, <<>>, <<"s1">>, <<"p1">> >>}

\* the ids the single-record operations are called with: the client's id and
\* the first id uuid.New() returns
CrudProjectIds == ProjectIds \cup {"p8"}
CrudSessionIds == SessionIds \cup {"s8"}

CrudRequests == {Request("dA", 0, b[1], b[2], b[3], b[4]) : b \in CrudBatches}

NextCrud ==
    \/ \E s \in SeqSlots, u \in Owners, req \in CrudRequests :
          ClockAllows(MaxCrudTime) /\ SyncData_Begin(s, u, req)
    \/ \E s \in SeqSlots : SyncData_DeviceSync(s)
    \/ \E s \in SeqSlots : SyncData_Project(s)
    \/ \E s \in SeqSlots : SyncData_Session(s)
    \/ \E s \in SeqSlots : SyncData_DeletedSessions(s)
    \/ \E s \in SeqSlots : SyncData_DeletedProjects(s)
    \/ \E s \in SeqSlots : SyncData_QuerySessions(s)
    \/ \E s \in SeqSlots : SyncData_QueryProjects(s)
    \/ \E s \in SeqSlots : SyncData_UpdateSyncTime(s)
    \/ \E s \in SeqSlots : SyncData_Commit(s)
    \/ \E s \in SeqSlots : SyncData_Error(s)
    \/ \E s \in SeqSlots, u \in Owners :
          clock + 1 <= MaxCrudTime /\ CreateProject(s, u, ProjectPayload(Nil, "A"))
    \/ \E s \in SeqSlots, u \in Owners, k \in ProjectIds :
          clock + 1 <= MaxCrudTime /\ UpdateProject(s, u, k, ProjectPayload(k, "A"))
    \/ \E s \in SeqSlots, u \in Owners, k \in CrudProjectIds :
          clock + 1 <= MaxCrudTime /\ DeleteProject(s, u, k)
    \/ \E s \in SeqSlots, u \in Owners, k \in SessionIds :
          clock + 1 <= MaxCrudTime /\ CreateSession(s, u, SessionPayload(k, "B"))
    \/ \E s \in SeqSlots, u \in Owners, k \in SessionIds :
          clock + 1 <= MaxCrudTime /\ UpdateSession(s, u, k, SessionPayload(k, "A"))
    \/ \E s \in SeqSlots, u \in Owners, k \in CrudSessionIds :
          clock + 1 <= MaxCrudTime /\ DeleteSession(s, u, k)

SpecCrud == Init /\ [][NextCrud]_vars


\* ------------------------------------------------------------- claims under SpecCrud
\* the handler has answered a single-record operation
AnsweredOp(s, method) == h[s].pc \in {"done", "failed"} /\ h[s].method = method

\* C23. No physical erasure: every step of a sync exchange or of a
\* single-record operation leaves every stored project and every stored
\* session stored, under its id.
C23_NeverErased ==
    [][/\ \A k \in ProjectKeys : projects[k].exists => projects'[k].exists
       /\ \A k \in SessionKeys : timer_sessions[k].exists => timer_sessions'[k].exists]_vars

\* C23 witness: a session that a sync exchange had tombstoned through its
\* list of deleted ids was then deleted with DeleteSession by its owner (204),
\* and is stored
C23_Witness ==
    \E s \in Slots :
        /\ AnsweredOp(s, "DeleteSession") /\ h[s].status = 204
        /\ lastCommit.req.DeletedSessions = <<h[s].id>>
        /\ h[s].id \in lastCommit.changed
        /\ h[s].before[2][h[s].id].is_deleted
        /\ timer_sessions[h[s].id].exists
        /\ timer_sessions[h[s].id].is_deleted

\* C28. The deleted flag stays: a step after which a stored record that was
\* deleted is no longer deleted is an explicit update of that record
\* (UpdateProject, UpdateSession) by its owner.  No push, tombstone list, cursor
\* advance, pull, create or delete resets the flag.
C28_DeletedFlagSticks ==
    [][/\ \A k \in ProjectKeys :
            (projects[k].exists /\ projects[k].is_deleted
               /\ ~(projects'[k].exists /\ projects'[k].is_deleted))
            => \E s \in Slots :
                  /\ h'[s] # h[s] /\ h'[s].method = "UpdateProject" /\ h'[s].id = k
                  /\ h'[s].userID = projects[k].user_id
       /\ \A k \in SessionKeys :
            (timer_sessions[k].exists /\ timer_sessions[k].is_deleted
               /\ ~(timer_sessions'[k].exists /\ timer_sessions'[k].is_deleted))
            => \E s \in Slots :
                  /\ h'[s] # h[s] /\ h'[s].method = "UpdateSession" /\ h'[s].id = k
                  /\ h'[s].userID = timer_sessions[k].user_id]_vars

\* C28 witness: an exchange of the owner upserted a project that was deleted;
\* the row took the new updated_at and is still deleted
C28_Witness ==
    \E s \in Slots :
        /\ Done(s) /\ h[s].method = "POST"
        /\ h[s].req.LocalProjects # <<>>
        /\ LET k == h[s].req.LocalProjects[1].id
               was == h[s].before[1]
           IN  /\ k \in ProjectKeys
               /\ was[k].exists /\ was[k].is_deleted /\ was[k].user_id = h[s].userID
               /\ projects[k].updated_at = h[s].txStart
               /\ projects[k].updated_at > was[k].updated_at
               /\ projects[k].is_deleted

\* the records of a pushed list that carry no id, and the ids of those that
\* carry an id stored nowhere in table `was`
IdLess(list) == {n \in 1..Len(list) : list[n].id = Nil}
NewClientIds(list, was) ==
    {list[n].id : n \in {m \in 1..Len(list) : list[m].id # Nil /\ ~was[list[m].id].exists}}

\* the rows of `table` stored under ids under which `was` stores none
NewKeys(table, was) == {k \in DOMAIN table : table[k].exists /\ ~was[k].exists}

\* C29. Id assignment and create: after a successful exchange the collection
\* holds one new row for every pushed record without id, under an id that no
\* row had and that no client supplied, and one new row under its own id for
\* every pushed record whose id was stored nowhere; the new rows belong to the
\* owner and carry the pushed values, and the rows that were stored are all
\* still stored under their ids.
C29_IdAssignmentAndCreate ==
    \A s \in Slots :
        (Done(s) /\ h[s].method = "POST") =>
            LET u == h[s].userID
                lp == h[s].req.LocalProjects
                ls == h[s].req.LocalSessions
                wasP == h[s].before[1]
                wasS == h[s].before[2]
                newP == NewKeys(projects, wasP)
                newS == NewKeys(timer_sessions, wasS)
            IN  /\ Cardinality(newP) = Cardinality(IdLess(lp)) + Cardinality(NewClientIds(lp, wasP))
                /\ Cardinality(newS) = Cardinality(IdLess(ls)) + Cardinality(NewClientIds(ls, wasS))
                /\ NewClientIds(lp, wasP) \subseteq newP
                /\ NewClientIds(ls, wasS) \subseteq newS
                /\ \A k \in newP :
                      \E n \in 1..Len(lp) :
                         /\ lp[n].id = (IF k \in MintProjectIds THEN Nil ELSE k)
                         /\ projects[k] = ProjectUpsert(NoRow, ForceOwner(lp[n], u), h[s].txStart)
                /\ \A k \in newS :
                      \E n \in 1..Len(ls) :
                         /\ ls[n].id = (IF k \in MintSessionIds THEN Nil ELSE k)
                         /\ timer_sessions[k]
                               = SessionUpsert(NoRow, ForceOwner(ls[n], u), h[s].txStart)
                /\ \A k \in ProjectKeys : wasP[k].exists => projects[k].exists
                /\ \A k \in SessionKeys : wasS[k].exists => timer_sessions[k].exists

\* C29 witness: the owner pushed the same project without id in two
\* exchanges; the collection holds two rows with the pushed values under two
\* ids, the second created by the exchange that has just committed
C29_Witness ==
    \E s \in Slots :
        /\ Done(s) /\ h[s].method = "POST"
        /\ h[s].req.LocalProjects = <<ProjectPayload(Nil, "A")>>
        /\ \E k1 \in MintProjectIds, k2 \in MintProjectIds :
              /\ k1 # k2
              /\ h[s].before[1][k1].exists /\ ~h[s].before[1][k2].exists
              /\ projects[k1].exists /\ projects[k2].exists
              /\ projects[k1].user_id = h[s].userID /\ projects[k2].user_id = h[s].userID
              /\ projects[k1].name = projects[k2].name
              /\ projects[k1].updated_at < projects[k2].updated_at
              /\ lastCommit.changed = {k2}

\* C30. Single-record delete: DeleteProject and DeleteSession answer 404 and
\* leave every row and cursor as it was when no row is stored under the id or
\* the row belongs to another owner; when the row belongs to the caller they
\* answer 204, the row is stored and deleted with its other fields as they
\* were, and nothing else has changed.
C30_DeleteByIdOwnedOrNotFound ==
    \A s \in Slots :
        (AnsweredOp(s, "DeleteProject") \/ AnsweredOp(s, "DeleteSession")) =>
            LET u == h[s].userID
                k == h[s].id
                ofProjects == h[s].method = "DeleteProject"
                was == IF ofProjects THEN h[s].before[1] ELSE h[s].before[2]
                is == IF ofProjects THEN projects ELSE timer_sessions
            IN  IF was[k].exists /\ was[k].user_id = u
                THEN /\ h[s].status = 204
                     /\ is[k].exists /\ is[k].is_deleted
                     /\ [is[k] EXCEPT !.is_deleted = was[k].is_deleted,
                                      !.updated_at = was[k].updated_at] = was[k]
                     /\ \A j \in DOMAIN is \ {k} : is[j] = was[j]
                     /\ IF ofProjects THEN timer_sessions = h[s].before[2]
                        ELSE projects = h[s].before[1]
                     /\ device_sync = h[s].before[3]
                ELSE /\ h[s].status = 404
                     /\ <<projects, timer_sessions, device_sync>> = h[s].before

\* C30 witness: DeleteProject was called by an owner with the id of a project
\* of another owner, and answered 404; the project is stored, not deleted
C30_Witness ==
    \E s \in Slots :
        /\ AnsweredOp(s, "DeleteProject") /\ h[s].status = 404
        /\ projects[h[s].id].exists
        /\ projects[h[s].id].user_id # h[s].userID
        /\ ~projects[h[s].id].is_deleted
        /\ \E k \in SessionKeys : timer_sessions[k].exists /\ timer_sessions[k].is_deleted


\* ------------------------------------------------------------- the request body
\* A body is a JSON text.  json.Decoder.Decode fails on a text that is not
\* JSON and on an id that is not a UUID; a member that the text leaves out
\* keeps the zero value of its Go field, and no statement of SyncData looks at
\* the decoded request for anything but the fields it passes on.
BadUUID == "not-a-uuid"

\* the zero values of SyncRequest, Project and Session
ZeroSyncRequest ==
    [device_id |-> "", last_sync_time |-> 0, local_sessions |-> <<>>,
     local_projects |-> <<>>, deleted_sessions |-> <<>>, deleted_projects |-> <<>>]

ZeroProject ==
    [id |-> Nil, user_id |-> Nil, name |-> "", description |-> "", color |-> "",
     device_id |-> "", is_deleted |-> FALSE, updated_at |-> 0]

ZeroSession ==
    [id |-> Nil, user_id |-> Nil, project_id |-> Null, start_time |-> 0,
     end_time |-> 0, description |-> "", device_id |-> "", is_deleted |-> FALSE]

\* a JSON object decoded into a struct whose zero value is `zero`
DecodeObject(o, zero) == [f \in DOMAIN zero |-> IF f \in DOMAIN o THEN o[f] ELSE zero[f]]

\* json.NewDecoder(r.Body).Decode(&req) returns no error
Decodable(body) ==
    /\ body.syntax = "json"
    /\ LET top == DecodeObject(body, ZeroSyncRequest)
       IN  /\ \A n \in 1..Len(top.local_projects) :
                 DecodeObject(top.local_projects[n], ZeroProject).id # BadUUID
           /\ \A n \in 1..Len(top.local_sessions) :
                 DecodeObject(top.local_sessions[n], ZeroSession).id # BadUUID

\* the SyncRequest that Decode fills from a decodable body
Decode(body) ==
    LET top == DecodeObject(body, ZeroSyncRequest)
    IN  Request(top.device_id, top.last_sync_time,
                [n \in 1..Len(top.local_sessions) |->
                    DecodeObject(top.local_sessions[n], ZeroSession)],
                [n \in 1..Len(top.local_projects) |->
                    DecodeObject(top.local_projects[n], ZeroProject)],
                top.deleted_sessions, top.deleted_projects)

\* sync.go lines 35-39: Decode returns an error; 400 and return, before Begin
SyncData_BadRequest(s, userID) ==
    /\ h[s].pc \in {"idle", "done", "failed"}
    /\ h' = [h EXCEPT ![s] = [IdleHandler EXCEPT
                !.pc = "failed", !.userID = userID, !.status = 400,
                !.before = <<projects, timer_sessions, device_sync>>]]
    /\ UNCHANGED <<projects, timer_sessions, device_sync, clock, owed, own, lastCommit>>

\* sync.go lines 35-47: the body is decoded, then the transaction begins
SyncData_Decode(s, userID, body) ==
    IF Decodable(body) THEN SyncData_Begin(s, userID, Decode(body))
    ELSE SyncData_BadRequest(s, userID)

\* SpecValid: one exchange at a time, both owners; the bodies are a text that
\* is not JSON, a project with an id that is not a UUID, a project without
\* name, a session without start_time, and complete records
MaxValidTime == 4

Bodies ==
    {[syntax |-> "garbage"],
     [syntax |-> "json", device_id |-> "dA",
      local_projects |-> <<[id |-> BadUUID, name |-> "Work", color |-> "red"]>>],
     [syntax |-> "json", device_id |-> "dA",
      local_projects |-> <<[id |-> "p1", color |-> "red", device_id |-> "dA"]>>],
     [syntax |-> "json", device_id |-> "dA",
      local_sessions |-> <<[id |-> "s1", end_time |-> 2, device_id |-> "dA"]>>],
     [syntax |-> "json", device_id |-> "dA", last_sync_time |-> 0,
      local_projects |-> <<ProjectPayload("p1", "A")>>,
      local_sessions |-> <<SessionPayload("s1", "B")>>],
     [syntax |-> "json", device_id |-> "dA"]}

NextValid ==
    \/ \E s \in SeqSlots, u \in Owners, body \in Bodies :
          ClockAllows(MaxValidTime) /\ SyncData_Decode(s, u, body)
    \/ \E s \in SeqSlots : SyncData_DeviceSync(s)
    \/ \E s \in SeqSlots : SyncData_Project(s)
    \/ \E s \in SeqSlots : SyncData_Session(s)
    \/ \E s \in SeqSlots : SyncData_QuerySessions(s)
    \/ \E s \in SeqSlots : SyncData_QueryProjects(s)
    \/ \E s \in SeqSlots : SyncData_UpdateSyncTime(s)
    \/ \E s \in SeqSlots : SyncData_Commit(s)
    \/ \E s \in SeqSlots : SyncData_Error(s)

SpecValid == Init /\ [][NextValid]_vars

\* a record of the request lacks a field that the schema declares NOT NULL
\* (projects.name, projects.color, timer_sessions.start_time, end_time): the
\* decoded field holds its zero value
MissingRequiredField(req) ==
    \/ \E n \in 1..Len(req.LocalProjects) :
          req.LocalProjects[n].name = "" \/ req.LocalProjects[n].color = ""
    \/ \E n \in 1..Len(req.LocalSessions) :
          req.LocalSessions[n].start_time = 0 \/ req.LocalSessions[n].end_time = 0

\* C25. Validation: a push with a malformed record (a body that does not
\* decode, a record that lacks a required field) is answered 400, never 500 or
\* 200, without a transaction having been opened, and the store is as it was.
C25_MalformedRejectedBeforeTransaction ==
    \A s \in Slots :
        /\ (h[s].pc = "failed" /\ h[s].status = 400) =>
              /\ h[s].txStart = 0 /\ ~h[s].committed
              /\ <<projects, timer_sessions, device_sync>> = h[s].before
        /\ (h[s].pc \in {"done", "failed"} /\ MissingRequiredField(h[s].req)) =>
              /\ h[s].pc = "failed" /\ h[s].status = 400
              /\ h[s].txStart = 0 /\ ~h[s].committed
              /\ <<projects, timer_sessions, device_sync>> = h[s].before


\* ------------------------------------------------------------- SpecOwners
\* SpecOwners: two exchanges of sync.go at a time, one of each owner, through
\* the same record ids: the batches upsert a project, a session of that
\* project, or both, tombstone both, or are empty
MaxOwnersTime == 6

OwnerOf(s) == IF s = 1 THEN "u1" ELSE "u2"

OwnersBatches ==
    {<< <<>>, <<>>, <<>>, <<>> >>,
     << <<SessionPayload("s1", "B")>>, <<ProjectPayload("p1", "A")>>, <<>>, <<>> >>,
     << <<>>, <<ProjectPayload("p1", "B")>>, <<>>, <<>> >>,
     << <<SessionPayload("s1", "B")>>, <<>>, <<>>, <<>> >>,
     << <<>>, <<>>, <<"s1">>, <<"p1">> >>}

OwnersRequests == {Request("dA", 0, b[1], b[2], b[3], b[4]) : b \in OwnersBatches}

NextOwners ==
    \/ \E s \in ConcSlots, req \in OwnersRequests :
          ClockAllows(MaxOwnersTime) /\ SyncData_Begin(s, OwnerOf(s), req)
    \/ \E s \in ConcSlots : SyncData_DeviceSync(s)
    \/ \E s \in ConcSlots : SyncData_Project(s)
    \/ \E s \in ConcSlots : SyncData_Session(s)
    \/ \E s \in ConcSlots : SyncData_DeletedSessions(s)
    \/ \E s \in ConcSlots : SyncData_DeletedProjects(s)
    \/ \E s \in ConcSlots : SyncData_QuerySessions(s)
    \/ \E s \in ConcSlots : SyncData_QueryProjects(s)
    \/ \E s \in ConcSlots : SyncData_UpdateSyncTime(s)
    \/ \E s \in ConcSlots : SyncData_Commit(s)
    \/ \E s \in ConcSlots : SyncData_Error(s)

SpecOwners == InitConc /\ [][NextOwners]_vars


\* every row and every cursor row of every owner but u is after the step as
\* it was before
OthersUnchanged(u) ==
    \A v \in Owners \ {u} :
        /\ OwnOnly(projects', v) = OwnOnly(projects, v)
        /\ OwnOnly(timer_sessions', v) = OwnOnly(timer_sessions, v)
        /\ \A d \in Devices : device_sync'[<<v, d>>] = device_sync[<<v, d>>]

\* the rows of owner u that the batch of handler s makes of the rows of u
\* alone, no other owner holding anything
OwnProjectsAfter(s) ==
    LET u == h[s].userID
    IN  ApplyDeletedProjects(
            ApplyProjects(OwnOnly(projects, u), h[s].req.LocalProjects, 1, u, h[s].txStart),
            h[s].req.DeletedProjects, u, h[s].txStart)

OwnSessionsAfter(s) ==
    LET u == h[s].userID
    IN  ApplyDeletedSessions(
            ApplySessions(OwnOnly(timer_sessions, u), h[s].req.LocalSessions, 1, u,
                          h[s].txStart),
            h[s].req.DeletedSessions, u, h[s].txStart)

\* a table without the rows under ids that another owner than u holds in `held`
LessHeldByOthers(table, held, u) ==
    [k \in DOMAIN table |-> IF HeldByOther(held, k, u) THEN NoRow ELSE table[k]]

\* C27 as stated: every step of an exchange of owner U leaves the rows and
\* cursor rows of the other owners unchanged, and the rows U holds when its
\* exchange commits are those its batch makes of U's rows alone: the same
\* whatever exchanges of other owners ran before it or overlapped with it.
C27_OwnersFullyIndependent ==
    [][\A s \in Slots :
          h'[s] # h[s] =>
              /\ OthersUnchanged(h'[s].userID)
              /\ (h[s].pc = "commit" /\ h'[s].pc = "done") =>
                    /\ OwnOnly(projects', h[s].userID) = OwnProjectsAfter(s)
                    /\ OwnOnly(timer_sessions', h[s].userID) = OwnSessionsAfter(s)]_vars

\* C27. Owners are independent up to the ids: every step of an exchange of
\* owner U leaves the rows and cursor rows of the other owners unchanged; the
\* rows U holds when its exchange commits are those its batch makes of U's rows
\* alone, less the records pushed under an id that another owner holds; and a
\* session U stores references no project or a project that some owner holds.
C27_OwnersIndependentUpToIds ==
    [][\A s \in Slots :
          h'[s] # h[s] =>
              /\ OthersUnchanged(h'[s].userID)
              /\ (h[s].pc = "commit" /\ h'[s].pc = "done") =>
                    LET u == h[s].userID
                    IN  /\ OwnOnly(projects', u)
                             = LessHeldByOthers(OwnProjectsAfter(s), projects, u)
                        /\ OwnOnly(timer_sessions', u)
                             = LessHeldByOthers(OwnSessionsAfter(s), timer_sessions, u)
                        /\ \A k \in SessionKeys :
                              (timer_sessions'[k].exists /\ timer_sessions'[k].user_id = u
                                 /\ timer_sessions'[k].project_id # Null)
                              => projects'[timer_sessions'[k].project_id].exists]_vars

\* C27 witness: two exchanges of different owners overlapped and both
\* committed; the first owner holds project p1, the other owner pushed p1 as
\* well and holds a session that references it, and no project
C27_Witness ==
    /\ Done(1) /\ Done(2) /\ Overlapped(1, 2)
    /\ h[1].req.LocalProjects # <<>> /\ h[2].req.LocalProjects # <<>>
    /\ h[2].req.LocalSessions # <<>>
    /\ projects["p1"].exists /\ projects["p1"].user_id = h[1].userID
    /\ timer_sessions["s1"].exists /\ timer_sessions["s1"].user_id = h[2].userID
    /\ timer_sessions["s1"].project_id = "p1"
    /\ h[2].serverProjects = {}


\* ------------------------------------------------------------- more claims under Spec
\* the pushed record of list `list` under id k (the last one, were there more)
PushedUnder(list, k) ==
    list[CHOOSE n \in 1..Len(list) :
            list[n].id = k /\ \A m \in (n + 1)..Len(list) : list[m].id # k]

\* C31. Upserts before tombstones: after a successful exchange whose batch
\* upserts record X and also lists X in its deleted ids, X (unless another
\* owner holds the id) is stored for the owner with the pushed field values,
\* deleted, with the time of the exchange as updated_at; also when X was not
\* stored before the exchange.
C31_UpsertsBeforeTombstones ==
    \A s \in Slots :
        (Done(s) /\ h[s].method = "POST") =>
            LET u == h[s].userID
                req == h[s].req
            IN  /\ \A k \in IdsOf(req.LocalProjects) \cap Range(req.DeletedProjects) :
                      ~HeldByOther(h[s].before[1], k, u) =>
                          LET p == PushedUnder(req.LocalProjects, k)
                          IN  /\ projects[k].exists /\ projects[k].user_id = u
                              /\ projects[k].is_deleted
                              /\ projects[k].name = p.name
                              /\ projects[k].description = p.description
                              /\ projects[k].color = p.color
                              /\ projects[k].device_id = p.device_id
                              /\ projects[k].updated_at = h[s].txStart
                /\ \A k \in IdsOf(req.LocalSessions) \cap Range(req.DeletedSessions) :
                      ~HeldByOther(h[s].before[2], k, u) =>
                          LET x == PushedUnder(req.LocalSessions, k)
                          IN  /\ timer_sessions[k].exists /\ timer_sessions[k].user_id = u
                              /\ timer_sessions[k].is_deleted
                              /\ timer_sessions[k].project_id = x.project_id
                              /\ timer_sessions[k].start_time = x.start_time
                              /\ timer_sessions[k].end_time = x.end_time
                              /\ timer_sessions[k].description = x.description
                              /\ timer_sessions[k].updated_at = h[s].txStart

\* C31 witness: the first exchange of all pushed project p1 and listed p1 in
\* its deleted projects; p1, stored nowhere before, is stored deleted with the
\* pushed name, and the pull payload of the exchange returns it as deleted
C31_Witness ==
    \E s \in Slots :
        /\ Done(s) /\ h[s].method = "POST"
        /\ h[s].req.LocalProjects # <<>>
        /\ h[s].req.DeletedProjects = <<h[s].req.LocalProjects[1].id>>
        /\ LET k == h[s].req.LocalProjects[1].id
           IN  /\ ~h[s].before[1][k].exists
               /\ projects[k].exists /\ projects[k].is_deleted
               /\ projects[k].name = h[s].req.LocalProjects[1].name
               /\ PulledDeletedProject(s, k)


\* the deleted flag an upsert is to leave on a row: the one it had, false on
\* a row that was not stored
FlagKept(was, k) == IF was[k].exists THEN was[k].is_deleted ELSE FALSE

\* C32. Upserts and the deleted flag: after a successful exchange, every
\* record the batch pushed and did not list as deleted is stored with the
\* deleted flag it had before the exchange, false when it was not stored,
\* whatever is_deleted the pushed record carries.
C32_UpsertIgnoresDeletedFlag ==
    \A s \in Slots :
        (Done(s) /\ h[s].method = "POST") =>
            LET req == h[s].req
            IN  /\ \A k \in (IdsOf(req.LocalProjects) \ Range(req.DeletedProjects))
                              \cap ProjectKeys :
                      /\ projects[k].exists
                      /\ projects[k].is_deleted = FlagKept(h[s].before[1], k)
                /\ \A k \in (IdsOf(req.LocalSessions) \ Range(req.DeletedSessions))
                              \cap SessionKeys :
                      /\ timer_sessions[k].exists
                      /\ timer_sessions[k].is_deleted = FlagKept(h[s].before[2], k)

\* C32 witness: an exchange of the owner pushed a project that was tombstoned,
\* in a record that says is_deleted false, and a new session in a record that
\* says is_deleted true: the project has the pushed name and is still deleted,
\* the session is stored not deleted
C32_Witness ==
    \E s \in Slots :
        /\ Done(s) /\ h[s].method = "POST"
        /\ h[s].req.LocalProjects # <<>> /\ h[s].req.LocalSessions # <<>>
        /\ h[s].req.DeletedProjects = <<>> /\ h[s].req.DeletedSessions = <<>>
        /\ LET p == h[s].req.LocalProjects[1]
               x == h[s].req.LocalSessions[1]
               was == h[s].before
           IN  /\ ~p.is_deleted
               /\ was[1][p.id].exists /\ was[1][p.id].is_deleted
               /\ was[1][p.id].user_id = h[s].userID
               /\ projects[p.id].name = p.name /\ projects[p.id].color = p.color
               /\ projects[p.id].updated_at = h[s].txStart
               /\ projects[p.id].is_deleted
               /\ x.is_deleted
               /\ ~was[2][x.id].exists
               /\ timer_sessions[x.id].exists /\ ~timer_sessions[x.id].is_deleted


\* ------------------------------------------------------------- more claims under SpecConc
\* handlers s and t serve exchanges of the same owner and device
SameDevice(s, t) ==
    /\ h[s].userID = h[t].userID
    /\ h[s].req.DeviceID = h[t].req.DeviceID

\* of two open exchanges of one device at most one has written the cursor
\* row, and the other holds no record write
C33_OneWriterPerDevice ==
    \A s \in Slots : \A t \in Slots \ {s} :
        (InTx(s) /\ InTx(t) /\ SameDevice(s, t) /\ h[s].wC # NoCursor) =>
            /\ h[t].wC = NoCursor
            /\ h[t].wP = EmptyMap /\ h[t].wS = EmptyMap

\* C33. Exchanges of one device are serialised on its cursor row: while an
\* exchange of (owner, device) that has written the cursor row is open, a
\* second exchange of the same owner and device has written neither the cursor
\* row nor any record; and no step lowers the committed cursor of a device.
C33_SameDeviceSerialised ==
    /\ [] C33_OneWriterPerDevice
    /\ [][\A ud \in Owners \X Devices : device_sync'[ud] >= device_sync[ud]]_vars

\* C33 witness: two exchanges of the same device that were open at the same
\* time have both committed a project write; the cursor of the device is the
\* time of the later one
C33_Witness ==
    /\ Done(1) /\ Done(2) /\ SameDevice(1, 2) /\ Overlapped(1, 2)
    /\ h[1].changed # {} /\ h[2].changed # {}
    /\ h[1].now < h[2].now
    /\ h[1].txStart < h[2].txStart
    /\ device_sync[<<h[2].userID, h[2].req.DeviceID>>] = h[2].now


\* the operation that handler s has just answered successfully was made by u
StoredBy(u) == \E s \in Slots : h'[s].pc = "done" /\ h'[s].userID = u

\* C34. The owner of a stored record never changes: every step of a sync
\* exchange or of a single-record operation leaves the user_id of every stored
\* project and session as it was, and a record that a step stores for the
\* first time gets the authenticated owner of the exchange or create
\* operation that the step completes.
C34_OwnerNeverChanges ==
    [][/\ \A k \in ProjectKeys :
             /\ projects[k].exists => projects'[k].user_id = projects[k].user_id
             /\ (~projects[k].exists /\ projects'[k].exists) =>
                    StoredBy(projects'[k].user_id)
       /\ \A k \in SessionKeys :
             /\ timer_sessions[k].exists =>
                    timer_sessions'[k].user_id = timer_sessions[k].user_id
             /\ (~timer_sessions[k].exists /\ timer_sessions'[k].exists) =>
                    StoredBy(timer_sessions'[k].user_id)]_vars

\* C34 witness: an exchange of one owner that pushed a project id stored by
\* the other owner has committed; the project is the row it was, with the
\* owner it had
C34_Witness ==
    \E s \in Slots : \E k \in ProjectIds :
        /\ Done(s) /\ h[s].method = "POST"
        /\ \E n \in 1..Len(h[s].req.LocalProjects) : h[s].req.LocalProjects[n].id = k
        /\ h[s].before[1][k].exists
        /\ h[s].before[1][k].user_id # h[s].userID
        /\ projects[k].user_id # h[s].userID
        /\ projects[k] = h[s].before[1][k]


\* ------------------------------------------------------------- SpecLive
\* The statement at which handler s stands waits for a row that another open
\* transaction has written.
Waiting(s) ==
    \/ h[s].pc = "cursor" /\ CursorLocked(s)
    \/ /\ h[s].pc = "projects"
       /\ h[s].req.LocalProjects[h[s].i].id # Nil
       /\ ProjectLocked(s, h[s].req.LocalProjects[h[s].i].id)
    \/ /\ h[s].pc = "sessions"
       /\ h[s].req.LocalSessions[h[s].i].id # Nil
       /\ SessionLocked(s, h[s].req.LocalSessions[h[s].i].id)
    \/ /\ h[s].pc = "delSessions"
       /\ \E k \in Range(h[s].req.DeletedSessions) \cap SessionKeys :
             /\ VisSessions(s)[k].exists /\ VisSessions(s)[k].user_id = h[s].userID
             /\ SessionLocked(s, k)
    \/ /\ h[s].pc = "delProjects"
       /\ \E k \in Range(h[s].req.DeletedProjects) \cap ProjectKeys :
             /\ VisProjects(s)[k].exists /\ VisProjects(s)[k].user_id = h[s].userID
             /\ ProjectLocked(s, k)

\* mutant: a waiting statement is never cancelled
SyncData_WaitForever(s) == FALSE /\ UNCHANGED vars

\* A statement that waits for a row returns an error: the store ends a wait
\* that is part of a cycle, and the request context (cmd/api/main.go line 35,
\* passed to every statement) is cancelled after 60 s.  http.Error 500 and
\* return; the deferred tx.Rollback ends the transaction.
SyncData_WaitCancelled(s) ==
    /\ Waiting(s)
    /\ h' = [h EXCEPT ![s] = RolledBack(s, 500)]
    /\ UNCHANGED <<projects, timer_sessions, device_sync, clock, owed, own, lastCommit>>

\* the next statement of the transaction of handler s, or its Commit
SyncData_Statement(s) ==
    \/ SyncData_DeviceSync(s)
    \/ SyncData_Project(s)
    \/ SyncData_QuerySessions(s)
    \/ SyncData_QueryProjects(s)
    \/ SyncData_UpdateSyncTime(s)
    \/ SyncData_Commit(s)

\* SpecLive: two exchanges of sync.go at a time, for two devices of one owner;
\* the batches upsert the same two projects in opposite order
MaxLiveTime == 5

LiveBatches ==
    {<<ProjectPayload("p1", "A"), ProjectPayload("p8", "A")>>,
     <<ProjectPayload("p8", "B"), ProjectPayload("p1", "B")>>}

LiveRequests ==
    {Request(d, 0, <<>>, b, <<>>, <<>>) : d \in Devices, b \in LiveBatches}

NextLive ==
    \/ \E s \in ConcSlots, u \in PullOwners, req \in LiveRequests :
          ClockAllows(MaxLiveTime) /\ SyncData_Begin(s, u, req)
    \/ \E s \in ConcSlots : SyncData_DeviceSync(s)
    \/ \E s \in ConcSlots : SyncData_Project(s)
    \/ \E s \in ConcSlots : SyncData_QuerySessions(s)
    \/ \E s \in ConcSlots : SyncData_QueryProjects(s)
    \/ \E s \in ConcSlots : SyncData_UpdateSyncTime(s)
    \/ \E s \in ConcSlots : SyncData_Commit(s)
    \/ \E s \in ConcSlots : SyncData_Error(s)
    \/ \E s \in ConcSlots : SyncData_WaitCancelled(s)

\* The handler's goroutine runs, and the store executes a statement that waits
\* for no row; a statement that keeps waiting is cancelled.  A failure of a
\* statement that does not wait (SyncData_Error) may happen, and need not.
FairLive ==
    \A s \in ConcSlots : /\ WF_vars(SyncData_Statement(s))
                         /\ WF_vars(SyncData_WaitCancelled(s))

SpecLive == InitConc /\ [][NextLive]_vars /\ FairLive

\* ------------------------------------------------------------- claims under SpecLive
\* handler s has answered: 200 after Commit, or a failure after the rollback
Ended(s) == h[s].pc \in {"done", "failed"}

\* a handler that has answered holds no row
NoLockLeft ==
    \A s \in Slots :
        Ended(s) => h[s].wP = EmptyMap /\ h[s].wS = EmptyMap /\ h[s].wC = NoCursor

\* C35. Under fair scheduling of the handlers and of the store, every started
\* exchange ends: its handler answers after Commit, or with a failure after
\* the rollback, also when two exchanges wait for rows of each other; and a
\* handler that has answered holds no row that a later exchange could wait for.
C35_EveryExchangeEnds ==
    /\ \A s \in ConcSlots : InTx(s) ~> Ended(s)
    /\ [] NoLockLeft

\* C35 witness: two open exchanges that upsert the same two projects in
\* opposite order each wait for the project the other has written
C35_Witness ==
    /\ Waiting(1) /\ Waiting(2)
    /\ h[1].pc = "projects" /\ h[2].pc = "projects"
    /\ h[1].wP # EmptyMap /\ h[2].wP # EmptyMap
    /\ h[1].req.LocalProjects[h[1].i].id \in DOMAIN h[2].wP
    /\ h[2].req.LocalProjects[h[2].i].id \in DOMAIN h[1].wP

====
